---------------------------- MODULE Spec2Model ----------------------------
(***************************************************************************)
(* OpenReceView: the receipt aggregator (parser/uke_parser.py), the header *)
(* extraction it calls (parser/receipt_header_parser.py) and the two-tier  *)
(* master cache (master_loader.py).                                        *)
(*                                                                         *)
(* Text is a sequence of one-character strings, so that split, strip,      *)
(* join and the signature's formatting are computed and not assumed.       *)
(***************************************************************************)
EXTENDS Integers, Sequences, FiniteSets, TLC

VARIABLES
    \* group_records_into_receipts: its argument, its locals, its position
    records,      \* the argument: a sequence of UkeRecord
    pos,          \* index of the record the for loop takes next (1-based)
    receipts,     \* the local list `receipts`
    current,      \* the local `current`: a UkeReceipt or None
    gpc,          \* "idle" | "loop" | "done" (returned)
    headerCalls,  \* history: start_line of each receipt given to parse_receipt_header
    \* _build_signature applied to drawn inputs
    sigPaths,     \* a path list
    sigPerm,      \* a permutation of it
    sigFsA,       \* a file-system state
    sigFsB,       \* another file-system state
    sigOut,       \* the results, once computed
    \* the master cache
    fs,           \* path -> file state (stat outcome and rows)
    mem,          \* _MASTER_CACHE: key -> table
    memSig,       \* history: key -> signature of the files when the entry was stored
    disk,         \* ~/.openreceview_cache: file name -> payload
    last,         \* the last operation and what it did
    prevOp,       \* the name of the operation before it
    nOps,         \* operations so far
    \* load_simple_master applied to drawn inputs
    smArgs,       \* the arguments: the files in the order supplied, the columns
    smOut,        \* the result, once computed
    \* the master-path configuration
    homeCfg,      \* ~/.openreceview_master_paths.json: its content, or None
    cacheCfg,     \* ~/.openreceview_cache/master_paths.json: its content, or None
    \* the main window
    winTables,    \* category -> the table the window holds (self._disease_master, ...)
    \* parse_uke_text: its argument, its locals, its position
    ptext,        \* the argument `text`
    pidx,         \* `idx`: number of the line the for loop takes next (1-based)
    precords,     \* the local list `records`
    ppc,          \* "idle" | "loop" | "done" (returned)
    \* _split_modifier_codes (parser and summary widget) applied to drawn inputs
    spArgs,       \* raw, known, width
    spOut,        \* the two results, once computed
    \* parse_receipt_header applied to drawn inputs
    hdArgs,       \* the records of one receipt
    hdOut,        \* the header or the exception, once computed
    \* attach_diseases_to_receipt applied to one receipt
    adReceipt,    \* the receipt object
    adBefore,     \* history: the receipt before the first call
    adHist,       \* history: per call, the known-set given and the diseases set
    \* search_receipts_by_header applied to drawn inputs
    hsArgs,       \* receipts, cond
    hsOut,        \* the hits, once computed
    \* the main window: the loaded file and the two searches
    win_records,            \* self._records
    win_receipts,           \* self._receipts
    search_hits,            \* self._search_hits
    search_index,           \* self._search_index
    receipt_search_hits,    \* self._receipt_search_hits
    receipt_search_index,   \* self._receipt_search_index
    win_last                \* the last handler and how it ended

groupVars == <<records, pos, receipts, current, gpc, headerCalls>>
sigVars   == <<sigPaths, sigPerm, sigFsA, sigFsB, sigOut>>
cacheVars == <<fs, mem, memSig, disk, last, prevOp, nOps>>
simpleVars == <<smArgs, smOut>>
cfgVars   == <<homeCfg, cacheCfg>>
winVars   == <<winTables>>
parseVars == <<ptext, pidx, precords, ppc>>
splitVars == <<spArgs, spOut>>
headVars  == <<hdArgs, hdOut>>
coreVars  == <<groupVars, sigVars, cacheVars, simpleVars, cfgVars, winVars, parseVars>>
attachVars == <<adReceipt, adBefore, adHist>>
hsearchVars == <<hsArgs, hsOut>>
msearchVars == <<win_records, win_receipts, search_hits, search_index,
                 receipt_search_hits, receipt_search_index, win_last>>
tailVars  == <<splitVars, headVars, attachVars, hsearchVars, msearchVars>>
restVars  == <<simpleVars, cfgVars, winVars, parseVars, tailVars>>
vars      == <<groupVars, sigVars, cacheVars, restVars>>

---------------------------------------------------------------------------
(* Bounds *)

MaxRecs == 3      \* records in one input of group_records_into_receipts
MaxPaths == 2     \* paths in one path list
MaxStamp == 2     \* st_mtime_ns and st_size take the values 1..MaxStamp
MaxOps == 3       \* cache operations in one run
MaxRows == 3      \* csv rows in all the files of one load_simple_master call
MaxText == 4      \* characters in the text given to parse_uke_text

---------------------------------------------------------------------------
(* Text *)

\* Python's None
None == [tag |-> "None"]

\* the characters in use, in code-point order
Alphabet ==
    << " ", ",", ".", "/", "0", "1", "2", "3", "4", "5", "6", "7", "8", "9",
       ":", "?", "E", "R", "S", "Y", "_", "a", "b", "d", "e", "g", "h", "i",
       "j", "k", "m", "n", "o", "r", "s", "x", "y" >>

Ord(c) == CHOOSE i \in 1..Len(Alphabet) : Alphabet[i] = c

DigitChars == <<"0", "1", "2", "3", "4", "5", "6", "7", "8", "9">>

IsDigitChar(c) == \E i \in 1..10 : DigitChars[i] = c

IsUpperOrDigit(c) == IsDigitChar(c) \/ c \in {"E", "R", "S", "Y"}

IsSpace(c) == c \in {" ", "\n", "\r", "\f"}

\* str < str: lexicographic on code points
RECURSIVE StrLess(_, _)
StrLess(a, b) ==
    IF b = <<>> THEN FALSE
    ELSE IF a = <<>> THEN TRUE
    ELSE IF Head(a) = Head(b) THEN StrLess(Tail(a), Tail(b))
    ELSE Ord(Head(a)) < Ord(Head(b))

\* s.split(sep) for a one-character sep
RECURSIVE SplitAcc(_, _, _)
SplitAcc(s, sep, acc) ==
    IF s = <<>> THEN <<acc>>
    ELSE IF Head(s) = sep THEN <<acc>> \o SplitAcc(Tail(s), sep, <<>>)
    ELSE SplitAcc(Tail(s), sep, Append(acc, Head(s)))

Split(s, sep) == SplitAcc(s, sep, <<>>)

\* sep.join(parts)
RECURSIVE Join(_, _)
Join(parts, sep) ==
    IF parts = <<>> THEN <<>>
    ELSE IF Len(parts) = 1 THEN parts[1]
    ELSE parts[1] \o sep \o Join(Tail(parts), sep)

RECURSIVE LStrip(_)
LStrip(s) == IF s # <<>> /\ IsSpace(Head(s)) THEN LStrip(Tail(s)) ELSE s

RECURSIVE RStrip(_)
RStrip(s) ==
    IF s # <<>> /\ IsSpace(s[Len(s)]) THEN RStrip(SubSeq(s, 1, Len(s) - 1)) ELSE s

\* s.strip()
Strip(s) == RStrip(LStrip(s))

\* str(n) for n >= 0
RECURSIVE IntStr(_)
IntStr(n) ==
    IF n < 10 THEN <<DigitChars[n + 1]>>
    ELSE Append(IntStr(n \div 10), DigitChars[(n % 10) + 1])

---------------------------------------------------------------------------
(* Records: parser/uke_parser.py, parse_uke_text's body for one line *)

RE == <<"R", "E">>
UnknownType == <<"?", "?">>

\* the characters of [A-Z0-9] a text starts with
RECURSIVE UpperOrDigitPrefix(_)
UpperOrDigitPrefix(s) ==
    IF s # <<>> /\ IsUpperOrDigit(Head(s))
    THEN <<Head(s)>> \o UpperOrDigitPrefix(Tail(s))
    ELSE <<>>

\* the whole run captured, as ([A-Z0-9]{2,}) would
RecordTypeWholeRun(raw) ==
    LET run == UpperOrDigitPrefix(LStrip(raw)) IN
    IF Len(run) >= 2 THEN run ELSE UnknownType

\* RE_TYPE = ^\s*([A-Z0-9]{2}) : group(1), or "??" when there is no match
RecordTypeOf(raw) ==
    LET t == LStrip(raw) IN
    IF Len(t) >= 2 /\ IsUpperOrDigit(t[1]) /\ IsUpperOrDigit(t[2])
    THEN SubSeq(t, 1, 2)
    ELSE UnknownType

\* a record whose fields are stripped
UkeRecordTrimmed(lineNo, raw) ==
    [line_no |-> lineNo, raw |-> raw, record_type |-> RecordTypeOf(raw),
     fields |-> [i \in 1..Len(Split(raw, ",")) |-> Strip(Split(raw, ",")[i])]]

\* UkeRecord(line_no=idx, raw=raw, record_type=record_type, fields=raw.split(","))
UkeRecord(lineNo, raw) ==
    [line_no |-> lineNo, raw |-> raw, record_type |-> RecordTypeOf(raw),
     fields |-> Split(raw, ",")]

\* the lines the inputs are drawn from
LinePool ==
    { <<"R", "E", ",", "1">>,
      <<" ", "R", "E", ",", "2", " ">>,
      <<"S", "Y", ",", "7">>,
      <<"x">> }

MaxLine == MaxRecs + 1

\* strictly increasing line numbers, as parse_uke_text numbers physical lines
Increasing(ls) == \A i \in 1..(Len(ls) - 1) : ls[i] < ls[i + 1]

RecordInputs ==
    UNION { { [i \in 1..n |-> UkeRecord(ls[i], cs[i])] :
                ls \in { l \in [1..n -> 1..MaxLine] : Increasing(l) },
                cs \in [1..n -> LinePool] } : n \in 0..MaxRecs }

---------------------------------------------------------------------------
(* Header: parser/receipt_header_parser.py *)

RECURSIVE FirstRE(_)
FirstRE(recs) ==
    IF recs = <<>> THEN None
    ELSE IF Head(recs).record_type = RE THEN Head(recs)
    ELSE FirstRE(Tail(recs))

\* parse_receipt_header: the boundary record it picks, raw_record and the
\* positional receipt_type (the attributes the detectors recover are not part
\* of this record)
ParseReceiptHeader(recs) ==
    LET re_rec == FirstRE(recs) IN
    IF re_rec = None
    THEN [raw_record |-> <<>>, receipt_type |-> None]
    ELSE LET fields == [i \in 1..Len(re_rec.fields) |-> Strip(re_rec.fields[i])] IN
         [raw_record |-> re_rec.raw,
          receipt_type |-> IF Len(fields) > 1 THEN fields[2] ELSE None]

---------------------------------------------------------------------------
(* group_records_into_receipts: parser/uke_parser.py *)

UkeReceipt(index, startLine, recs) ==
    [index |-> index, start_line |-> startLine, records |-> recs,
     header |-> None, diseases |-> <<>>]

\* a receipt appended as it stands, its header never set
FinalizeForgotten(rcpt) == rcpt

\* current.header = parse_receipt_header(current.records)
Finalize(rcpt) == [rcpt EXCEPT !.header = ParseReceiptHeader(rcpt.records)]

\* receipts.append(current) after the header is set
CloseCurrent(out, cur) == Append(out, Finalize(cur))

\* the index taken from the list as it was before the open receipt was appended
NextIndexStale(out) == Len(receipts) + 1

\* index=len(receipts) + 1
NextIndex(out) == Len(out) + 1

\* the record put in front of the receipt's records
PrependRecord(cur, rec) == [cur EXCEPT !.records = <<rec>> \o @]

\* current.records.append(rec)
AppendRecord(cur, rec) == [cur EXCEPT !.records = Append(@, rec)]

\* the call: the argument is bound, the locals are initialised
GroupCall ==
    /\ gpc = "idle"
    /\ gpc' = "loop"
    /\ pos' = 1
    /\ receipts' = <<>>
    /\ current' = None
    /\ headerCalls' = <<>>
    /\ UNCHANGED <<records, sigVars, cacheVars, restVars>>

\* loop body, rec.record_type == "RE"
GroupBoundary ==
    /\ gpc = "loop"
    /\ pos <= Len(records)
    /\ records[pos].record_type = RE
    /\ LET rec == records[pos]
           out == IF current # None THEN CloseCurrent(receipts, current) ELSE receipts
       IN /\ receipts' = out
          /\ headerCalls' = IF current # None
                            THEN Append(headerCalls, current.start_line)
                            ELSE headerCalls
          /\ current' = UkeReceipt(NextIndex(out), rec.line_no, <<rec>>)
    /\ pos' = pos + 1
    /\ UNCHANGED <<records, gpc, sigVars, cacheVars, restVars>>

\* loop body, another record while a receipt is open
GroupAppend ==
    /\ gpc = "loop"
    /\ pos <= Len(records)
    /\ records[pos].record_type # RE
    /\ current # None
    /\ current' = AppendRecord(current, records[pos])
    /\ pos' = pos + 1
    /\ UNCHANGED <<records, receipts, gpc, headerCalls, sigVars, cacheVars, restVars>>

\* a record before the first RE opening a receipt of its own
GroupSkipOpens ==
    /\ gpc = "loop"
    /\ pos <= Len(records)
    /\ records[pos].record_type # RE
    /\ current = None
    /\ current' = UkeReceipt(NextIndex(receipts), records[pos].line_no, <<records[pos]>>)
    /\ pos' = pos + 1
    /\ UNCHANGED <<records, receipts, gpc, headerCalls, sigVars, cacheVars, restVars>>

\* loop body, another record before the first RE: continue
GroupSkip ==
    /\ gpc = "loop"
    /\ pos <= Len(records)
    /\ records[pos].record_type # RE
    /\ current = None
    /\ pos' = pos + 1
    /\ UNCHANGED <<records, receipts, current, gpc, headerCalls, sigVars, cacheVars, restVars>>

\* after the loop: the last receipt is closed, the list returned
GroupReturn ==
    /\ gpc = "loop"
    /\ pos > Len(records)
    /\ receipts' = IF current # None THEN CloseCurrent(receipts, current) ELSE receipts
    /\ headerCalls' = IF current # None
                      THEN Append(headerCalls, current.start_line)
                      ELSE headerCalls
    /\ gpc' = "done"
    /\ UNCHANGED <<records, pos, current, sigVars, cacheVars, restVars>>

SigIdle ==
    /\ sigPaths = <<>> /\ sigPerm = <<>> /\ sigFsA = <<>> /\ sigFsB = <<>>
    /\ sigOut = None

CacheIdle ==
    /\ fs = <<>> /\ mem = <<>> /\ memSig = <<>> /\ disk = <<>>
    /\ last = None /\ prevOp = "none" /\ nOps = 0

GroupIdle ==
    /\ records = <<>> /\ pos = 0 /\ receipts = <<>> /\ current = None
    /\ gpc = "off" /\ headerCalls = <<>>

SimpleIdle == smArgs = None /\ smOut = None

CfgIdle == homeCfg = None /\ cacheCfg = None

WinIdle == winTables = <<>>

ParseIdle == ptext = <<>> /\ pidx = 0 /\ precords = <<>> /\ ppc = "off"

SplitIdle == spArgs = None /\ spOut = None

HeadIdle == hdArgs = None /\ hdOut = None

CoreIdle ==
    GroupIdle /\ SigIdle /\ CacheIdle /\ SimpleIdle /\ CfgIdle /\ WinIdle /\ ParseIdle

AttachIdle == adReceipt = None /\ adBefore = None /\ adHist = <<>>

HSearchIdle == hsArgs = None /\ hsOut = None

MSearchIdle ==
    /\ win_records = <<>> /\ win_receipts = <<>>
    /\ search_hits = <<>> /\ search_index = 0
    /\ receipt_search_hits = <<>> /\ receipt_search_index = 0
    /\ win_last = None

TailIdle == SplitIdle /\ HeadIdle /\ AttachIdle /\ HSearchIdle /\ MSearchIdle

RestIdle == SimpleIdle /\ CfgIdle /\ WinIdle /\ ParseIdle /\ TailIdle

GroupInit ==
    /\ records \in RecordInputs
    /\ pos = 0
    /\ receipts = <<>>
    /\ current = None
    /\ gpc = "idle"
    /\ headerCalls = <<>>
    /\ SigIdle
    /\ CacheIdle
    /\ RestIdle

GroupNext ==
    \/ GroupCall
    \/ GroupBoundary
    \/ GroupAppend
    \/ GroupSkip
    \/ GroupReturn

SpecGroup == GroupInit /\ [][GroupNext]_vars

---------------------------------------------------------------------------
(* Files: what master_loader.py sees of the file system *)

\* the master files, as str(path)
PathA == <<"a", "/", "m">>
PathB == <<"b", "/", "m">>
PathPool == {PathA, PathB}

\* Path.name: the text after the last "/"
PathName(p) == LET parts == Split(p, "/") IN parts[Len(parts)]

Missing == [st |-> "missing"]   \* stat raises FileNotFoundError
Denied  == [st |-> "denied"]    \* stat raises another OSError (PermissionError)

FileStat(m, z) == [st |-> "file", mtime |-> m, size |-> z]

StatStates ==
    { FileStat(m, z) : m \in 1..MaxStamp, z \in 1..MaxStamp } \cup {Missing, Denied}

\* path lists of 1..MaxPaths paths
PathLists == UNION { [1..n -> PathPool] : n \in 1..MaxPaths }

IsPermutationOf(q, l) ==
    /\ Len(q) = Len(l)
    /\ \E f \in Permutations(1..Len(l)) : q = [i \in 1..Len(l) |-> l[f[i]]]

---------------------------------------------------------------------------
(* _build_signature: master_loader.py *)

\* sorted(..., key=str): stable insertion of x into a sorted list
RECURSIVE InsertSorted(_, _)
InsertSorted(x, l) ==
    IF l = <<>> THEN <<x>>
    ELSE IF StrLess(x, Head(l)) THEN <<x>> \o l
    ELSE <<Head(l)>> \o InsertSorted(x, Tail(l))

RECURSIVE SortedByStrFrom(_, _)
SortedByStrFrom(l, acc) ==
    IF l = <<>> THEN acc ELSE SortedByStrFrom(Tail(l), InsertSorted(Head(l), acc))

\* the paths taken in the order given
Unsorted(l) == l

\* sorted(paths, key=lambda x: str(x))
SortedByStr(l) == SortedByStrFrom(l, <<>>)

MissingText == <<"m", "i", "s", "s", "i", "n", "g">>

\* f"{p.name}:{stat.st_mtime_ns}:{stat.st_size}" or f"{p.name}:missing"
SigPart(p, stat) ==
    IF stat.st = "file"
    THEN PathName(p) \o <<":">> \o IntStr(stat.mtime) \o <<":">> \o IntStr(stat.size)
    ELSE PathName(p) \o <<":">> \o MissingText

\* _build_signature(paths) in file system f: the text, or the exception that
\* leaves it (only FileNotFoundError is caught)
BuildSignature(paths, f) ==
    LET sorted == SortedByStr(paths) IN
    IF \E i \in 1..Len(sorted) : f[sorted[i]].st = "denied"
    THEN [raised |-> "OSError"]
    ELSE [raised |-> "no",
          sig |-> Join([i \in 1..Len(sorted) |-> SigPart(sorted[i], f[sorted[i]])],
                       <<"_">>)]

\* the three signatures are computed
SigApply ==
    /\ sigOut = None
    /\ sigOut' = [a    |-> BuildSignature(sigPaths, sigFsA),
                  perm |-> BuildSignature(sigPerm, sigFsA),
                  b    |-> BuildSignature(sigPaths, sigFsB)]
    /\ UNCHANGED <<sigPaths, sigPerm, sigFsA, sigFsB, groupVars, cacheVars, restVars>>

SigInit ==
    /\ sigPaths \in PathLists
    /\ sigPerm \in { q \in PathLists : IsPermutationOf(q, sigPaths) }
    /\ sigFsA \in [PathPool -> StatStates]
    /\ sigFsB \in [PathPool -> StatStates]
    /\ sigOut = None
    /\ GroupIdle
    /\ CacheIdle
    /\ RestIdle

SigNext == SigApply

SpecSig == SigInit /\ [][SigNext]_vars

---------------------------------------------------------------------------
(* Master tables: load_simple_master and the loop of load_disease_master *)

\* what a master file holds: its rows, as the texts safe(code_col),
\* safe(name_col), safe(kana_col) give
RowsX == << [code |-> <<"c", "1">>, name |-> <<"x">>, kana |-> <<"k">>] >>
RowsY == << [code |-> <<"c", "1">>, name |-> <<"y">>, kana |-> <<>>],
            [code |-> <<"c", "2">>, name |-> <<>>, kana |-> <<>>] >>
ContentPool == {RowsX, RowsY}

OtherRows(rows) == IF rows = RowsX THEN RowsY ELSE RowsX

EmptyTable == <<>>

\* the entry of a code kept as it is once it is there
RECURSIVE AddRowsKeepFirst(_, _)
AddRowsKeepFirst(master, rows) ==
    IF rows = <<>> THEN master
    ELSE LET r == Head(rows) IN
         IF r.code = <<>> \/ (r.name = <<>> /\ r.kana = <<>>)
         THEN AddRowsKeepFirst(master, Tail(rows))
         ELSE AddRowsKeepFirst(master @@ (r.code :> [name |-> r.name, kana |-> r.kana]),
                               Tail(rows))

\* master[code] = {"name": name, "kana": kana}, after the two `continue` tests
RECURSIVE AddRows(_, _)
AddRows(master, rows) ==
    IF rows = <<>> THEN master
    ELSE LET r == Head(rows) IN
         IF r.code = <<>> \/ (r.name = <<>> /\ r.kana = <<>>)
         THEN AddRows(master, Tail(rows))
         ELSE AddRows((r.code :> [name |-> r.name, kana |-> r.kana]) @@ master,
                      Tail(rows))

RECURSIVE ReadFiles(_, _, _)
ReadFiles(paths, f, master) ==
    IF paths = <<>> THEN master
    ELSE ReadFiles(Tail(paths), f, AddRows(master, f[Head(paths)].rows))

\* path.read_bytes() succeeds for every path
Readable(paths, f) == \A i \in 1..Len(paths) : f[paths[i]].st = "file"

\* load_simple_master(paths, ...): the table, or the exception of read_bytes
LoadSimpleMaster(paths, f) ==
    IF Readable(paths, f)
    THEN [raised |-> "no", table |-> ReadFiles(paths, f, EmptyTable)]
    ELSE [raised |-> "OSError"]

---------------------------------------------------------------------------
(* The master cache: master_loader.py *)

Shinryo == <<"s", "h", "i", "n", "r", "y", "o">>
Disease == <<"d", "i", "s", "e", "a", "s", "e">>
Kinds == {Shinryo, Disease}

\* the path lists a load is given: distinct files, in any order
CachePathLists ==
    { l \in UNION { [1..n -> PathPool] : n \in 1..Cardinality(PathPool) } :
        \A i, j \in 1..Len(l) : i # j => l[i] # l[j] }

\* key = (kind, tuple(sorted(str(p) for p in paths)))
CacheKey(kind, paths) == <<kind, SortedByStr(paths)>>

JsonSuffix == <<".", "j", "s", "o", "n">>

\* _disk_cache_path: f"{kind}_{signature}.json" in the cache directory
DiskCachePath(kind, signature) == kind \o <<"_">> \o signature \o JsonSuffix

\* json.dump(data, f)
JsonDump(table) == [json |-> "object", value |-> table]

\* file contents json.load does not turn into a dict
JsonArray   == [json |-> "array"]     \* valid JSON, not a dict
JsonInvalid == [json |-> "invalid"]   \* not JSON, or not readable
CorruptPayloads == {JsonArray, JsonInvalid}

\* the loaded JSON value returned without the isinstance(data, dict) test
ReadCacheFileUnchecked(payload) ==
    CASE payload.json = "object"  -> payload.value
      [] payload.json = "array"   -> payload
      [] payload.json = "invalid" -> None

\* _load_simple_master_from_disk once the cache file is known to exist:
\* the dict, or None
ReadCacheFile(payload) == IF payload.json = "object" THEN payload.value ELSE None

\* what the disk lookup of a load finds
DiskLookup(d, fname) ==
    IF fname \notin DOMAIN d THEN "absent"
    ELSE IF ReadCacheFile(d[fname]) = None THEN "corrupt"
    ELSE "hit"

\* a disk hit returned without _MASTER_CACHE[key] = cached
StoreForgotten(m, key, table) == m

\* _MASTER_CACHE[key] = ...
Store(m, key, table) == (key :> table) @@ m

\* the write of _save_simple_master_to_disk: done, or failed in open() (the
\* file is as it was), or failed while dumping (a truncated file is left)
WriteOutcomes == {"ok", "openfail", "partial"}

SaveToDisk(d, fname, table, wr) ==
    CASE wr = "ok"       -> (fname :> JsonDump(table)) @@ d
      [] wr = "openfail" -> d
      [] wr = "partial"  -> (fname :> JsonInvalid) @@ d

\* what a load did, for `last`
LoadRecord(kind, paths, outcome, result, statted, lookup, sourceRead, write) ==
    [op |-> "load", kind |-> kind, paths |-> paths, outcome |-> outcome,
     result |-> result, statted |-> statted, lookup |-> lookup,
     sourceRead |-> sourceRead, write |-> write]

\* another operation may still be taken in this run
CanStep == nOps < MaxOps

Step(name) ==
    /\ nOps' = nOps + 1
    /\ prevOp' = (IF last = None THEN "none" ELSE last.op)

\* load_shinryo_master(paths) / load_disease_master(paths): key in _MASTER_CACHE
LoadMemHit(kind, paths) ==
    LET key == CacheKey(kind, paths) IN
    /\ CanStep
    /\ key \in DOMAIN mem
    /\ Step("load")
    /\ last' = LoadRecord(kind, paths, "mem", mem[key], FALSE, "none", FALSE, "none")
    /\ UNCHANGED <<fs, mem, memSig, disk, groupVars, sigVars, restVars>>

\* ... the key is not in _MASTER_CACHE and the load raises: from stat() in
\* _build_signature, from mkdir() in _get_cache_dir, or from read_bytes()
LoadRaises(kind, paths, mkdirOk) ==
    LET key  == CacheKey(kind, paths)
        sigR == BuildSignature(paths, fs)
    IN
    /\ CanStep
    /\ key \notin DOMAIN mem
    /\ mkdirOk = FALSE => DOMAIN disk = {}
    /\ \/ sigR.raised # "no"
       \/ ~mkdirOk
       \/ /\ sigR.raised = "no"
          /\ DiskLookup(disk, DiskCachePath(kind, sigR.sig)) # "hit"
          /\ LoadSimpleMaster(paths, fs).raised # "no"
    /\ Step("load")
    /\ last' = LoadRecord(kind, paths, "raised", None, TRUE,
                          IF sigR.raised = "no" /\ mkdirOk
                          THEN DiskLookup(disk, DiskCachePath(kind, sigR.sig))
                          ELSE "none",
                          sigR.raised = "no" /\ mkdirOk, "none")
    /\ UNCHANGED <<fs, mem, memSig, disk, groupVars, sigVars, restVars>>

\* ... the key is not in _MASTER_CACHE and the disk entry of the signature
\* holds a dict
LoadDiskHit(kind, paths) ==
    LET key  == CacheKey(kind, paths)
        sigR == BuildSignature(paths, fs)
    IN
    /\ CanStep
    /\ key \notin DOMAIN mem
    /\ sigR.raised = "no"
    /\ LET fname == DiskCachePath(kind, sigR.sig) IN
       /\ DiskLookup(disk, fname) = "hit"
       /\ LET cached == ReadCacheFile(disk[fname]) IN
          /\ mem' = Store(mem, key, cached)
          /\ memSig' = (key :> sigR.sig) @@ memSig
          /\ last' = LoadRecord(kind, paths, "disk", cached, TRUE, "hit", FALSE, "none")
    /\ Step("load")
    /\ UNCHANGED <<fs, disk, groupVars, sigVars, restVars>>

\* ... a miss in both tiers: the table is computed and both tiers are written
LoadMiss(kind, paths, wr) ==
    LET key  == CacheKey(kind, paths)
        sigR == BuildSignature(paths, fs)
        made == LoadSimpleMaster(paths, fs)
    IN
    /\ CanStep
    /\ key \notin DOMAIN mem
    /\ sigR.raised = "no"
    /\ made.raised = "no"
    /\ LET fname == DiskCachePath(kind, sigR.sig) IN
       /\ DiskLookup(disk, fname) # "hit"
       /\ disk' = SaveToDisk(disk, fname, made.table, wr)
       /\ last' = LoadRecord(kind, paths, "parsed", made.table, TRUE,
                             DiskLookup(disk, fname), TRUE, wr)
    /\ mem' = Store(mem, key, made.table)
    /\ memSig' = (key :> sigR.sig) @@ memSig
    /\ Step("load")
    /\ UNCHANGED <<fs, groupVars, sigVars, restVars>>

\* a clear that removes the cache files too
ClearAlsoDisk ==
    /\ CanStep
    /\ Step("clear")
    /\ mem' = <<>>
    /\ memSig' = <<>>
    /\ disk' = <<>>
    /\ last' = [op |-> "clear"]
    /\ UNCHANGED <<fs, groupVars, sigVars, restVars>>

\* clear_master_cache()
ClearMasterCache ==
    /\ CanStep
    /\ Step("clear")
    /\ mem' = <<>>
    /\ memSig' = <<>>
    /\ last' = [op |-> "clear"]
    /\ UNCHANGED <<fs, disk, groupVars, sigVars, restVars>>

EnvRecord == [op |-> "env"]

\* outside the program: a master file's modification time changes
TouchFile(p) ==
    /\ CanStep
    /\ fs[p].st = "file"
    /\ fs[p].mtime < MaxStamp
    /\ fs' = [fs EXCEPT ![p].mtime = @ + 1]
    /\ Step("env")
    /\ last' = EnvRecord
    /\ UNCHANGED <<mem, memSig, disk, groupVars, sigVars, restVars>>

\* outside the program: a master file is rewritten with another size and
\* other rows, its modification time kept
RewriteFile(p) ==
    /\ CanStep
    /\ fs[p].st = "file"
    /\ \E z \in (1..MaxStamp) \ {fs[p].size} :
         fs' = [fs EXCEPT ![p].size = z, ![p].rows = OtherRows(@)]
    /\ Step("env")
    /\ last' = EnvRecord
    /\ UNCHANGED <<mem, memSig, disk, groupVars, sigVars, restVars>>

\* outside the program: a master file is removed, or can no longer be stat'ed
LoseFile(p) ==
    /\ CanStep
    /\ fs[p].st = "file"
    /\ \E gone \in {Missing, Denied} : fs' = [fs EXCEPT ![p] = gone]
    /\ Step("env")
    /\ last' = EnvRecord
    /\ UNCHANGED <<mem, memSig, disk, groupVars, sigVars, restVars>>

\* outside the program: a cache file is damaged
CorruptCacheFile(fname) ==
    /\ CanStep
    /\ fname \in DOMAIN disk
    /\ disk[fname].json = "object"
    /\ \E bad \in CorruptPayloads : disk' = [disk EXCEPT ![fname] = bad]
    /\ Step("env")
    /\ last' = EnvRecord
    /\ UNCHANGED <<fs, mem, memSig, groupVars, sigVars, restVars>>

\* the master files when the process starts: both define code c1, differently
InitialFiles ==
    (PathA :> [st |-> "file", mtime |-> 1, size |-> 1, rows |-> RowsX])
    @@ (PathB :> [st |-> "file", mtime |-> 1, size |-> 1, rows |-> RowsY])

CacheInit ==
    /\ fs = InitialFiles
    /\ mem = <<>>
    /\ memSig = <<>>
    /\ disk = <<>>
    /\ last = None
    /\ prevOp = "none"
    /\ nOps = 0
    /\ GroupIdle
    /\ SigIdle
    /\ RestIdle

CacheNext ==
    \/ \E kind \in Kinds, paths \in CachePathLists : LoadMemHit(kind, paths)
    \/ \E kind \in Kinds, paths \in CachePathLists, mkdirOk \in BOOLEAN :
         LoadRaises(kind, paths, mkdirOk)
    \/ \E kind \in Kinds, paths \in CachePathLists : LoadDiskHit(kind, paths)
    \/ \E kind \in Kinds, paths \in CachePathLists, wr \in WriteOutcomes :
         LoadMiss(kind, paths, wr)
    \/ ClearMasterCache
    \/ \E p \in PathPool : TouchFile(p)
    \/ \E p \in PathPool : RewriteFile(p)
    \/ \E p \in PathPool : LoseFile(p)
    \/ \E fname \in DOMAIN disk : CorruptCacheFile(fname)

SpecCache == CacheInit /\ [][CacheNext]_vars

---------------------------------------------------------------------------
(* Properties of group_records_into_receipts *)

REPositions(recs) == { i \in 1..Len(recs) : recs[i].record_type = RE }

\* position of the first RE record, or Len + 1 when there is none
FirstREPos(recs) ==
    IF REPositions(recs) = {} THEN Len(recs) + 1
    ELSE CHOOSE i \in REPositions(recs) : \A j \in REPositions(recs) : i <= j

RECURSIVE FlattenRecords(_)
FlattenRecords(rs) ==
    IF rs = <<>> THEN <<>> ELSE Head(rs).records \o FlattenRecords(Tail(rs))

\* the receipts built so far: the closed ones, then the open one
Built == IF current = None \/ gpc = "done" THEN receipts ELSE Append(receipts, current)

\* C1: when group_records_into_receipts has returned, the number of receipts
\* equals the number of "RE" records of the input and the receipts' index
\* values are 1, 2, ..., N in output order (no receipt when N = 0).
C1_CountAndIndex ==
    gpc = "done" =>
        /\ Len(receipts) = Cardinality(REPositions(records))
        /\ \A i \in 1..Len(receipts) : receipts[i].index = i

C1_Witness ==
    /\ gpc = "done"
    /\ Len(receipts) = 2
    /\ Len(records) = 3
    /\ records[1].record_type # RE

\* C2: the receipts partition the input from its first "RE" record on: their
\* records, concatenated in output order, are exactly that suffix of the
\* input; each receipt starts with an "RE" record, holds no other one, and
\* its start_line is that record's line_no.
C2_Partition ==
    gpc = "done" =>
        /\ FlattenRecords(receipts)
             = SubSeq(records, FirstREPos(records), Len(records))
        /\ \A i \in 1..Len(receipts) :
              LET r == receipts[i] IN
              /\ r.records # <<>>
              /\ r.records[1].record_type = RE
              /\ \A j \in 2..Len(r.records) : r.records[j].record_type # RE
              /\ r.start_line = r.records[1].line_no

C2_Witness ==
    /\ gpc = "done"
    /\ Len(receipts) = 2
    /\ Len(receipts[1].records) = 2
    /\ receipts[1].start_line > 1

\* C3: at every point of the run, a record that precedes the first "RE"
\* record of the input is in no receipt, closed or open; with no "RE" record
\* at all the returned list is empty.
C3_PreBoundaryDropped ==
    /\ \A i \in 1..Len(Built) : \A j \in 1..Len(Built[i].records) :
          \A k \in 1..(FirstREPos(records) - 1) : Built[i].records[j] # records[k]
    /\ (gpc = "done" /\ REPositions(records) = {}) => receipts = <<>>

C3_Witness ==
    /\ gpc = "done"
    /\ Len(records) = 3
    /\ FirstREPos(records) = 3
    /\ Len(receipts) = 1

\* C4: every receipt in the output list has a header, derived from its own
\* boundary record (header.raw_record = records[0].raw), and
\* parse_receipt_header has been called exactly once for it, before it was
\* appended: the calls so far are those of the appended receipts, in order,
\* and the open receipt has no header yet. This holds for receipts closed by
\* a following "RE" record and for the last one closed at the end of input.
C4_FinalizedOnce ==
    /\ Len(headerCalls) = Len(receipts)
    /\ \A i \in 1..Len(receipts) :
          /\ headerCalls[i] = receipts[i].start_line
          /\ receipts[i].header # None
          /\ receipts[i].header.raw_record = receipts[i].records[1].raw
    /\ (gpc = "loop" /\ current # None) => current.header = None

C4_Witness ==
    /\ gpc = "done"
    /\ Len(receipts) = 2
    /\ receipts[1].header.raw_record # receipts[2].header.raw_record
    /\ records[Len(records)].record_type # RE

---------------------------------------------------------------------------
(* Properties of _build_signature *)

\* C8: _build_signature gives the same result for a path list and for any
\* permutation of it, in the same file-system state.
C8_OrderIndependent ==
    sigOut # None => sigOut.a = sigOut.perm

C8_Witness ==
    /\ sigOut # None
    /\ sigPerm # sigPaths
    /\ sigOut.a.raised = "no"
    /\ sigFsA[PathA] # sigFsA[PathB]

\* a contributing file differs between the two states: in mtime or size, or
\* it exists in one and cannot be stat'ed in the other
ContributingFileDiffers(paths, f, g) ==
    \E i \in 1..Len(paths) :
        LET x == f[paths[i]]
            y == g[paths[i]]
        IN \/ x.st = "file" /\ y.st = "file" /\ (x.mtime # y.mtime \/ x.size # y.size)
           \/ x.st = "file" /\ y.st # "file"
           \/ x.st # "file" /\ y.st = "file"

\* C9: for a fixed path list, _build_signature returns a signature in every
\* file-system state (a file that cannot be stat'ed gives a "missing" part,
\* the call does not raise), and the signatures of two states differ whenever
\* a contributing file differs in mtime, in size, or in being stat'able.
C9_SignatureSeparates ==
    sigOut # None =>
        /\ sigOut.a.raised = "no"
        /\ sigOut.b.raised = "no"
        /\ ContributingFileDiffers(sigPaths, sigFsA, sigFsB) => sigOut.a # sigOut.b

---------------------------------------------------------------------------
(* Properties of the master cache *)

\* the step taken is a load; `last'` says which
LoadStep == nOps' = nOps + 1 /\ last'.op = "load"

\* C5: a table served from a cache tier was stored under the signature the
\* files have now: once the mtime or the size of a file of the path set has
\* changed, the next load of the category and path set recomputes the table.
C5_StaleEntryBypassed ==
    (last # None /\ last.op = "load" /\ last.outcome \in {"mem", "disk"}
       /\ Readable(last.paths, fs))
    => memSig[CacheKey(last.kind, last.paths)] = BuildSignature(last.paths, fs).sig

\* C6: a load consults the in-process store, then the disk entry of
\* (category, signature), then the loader. A key in the in-process store is
\* returned with no stat, no disk lookup, no source read and no write. A
\* readable disk entry is returned without a source read and is in the
\* in-process store afterwards. On a miss in both tiers the table is read
\* from the source files and is in the in-process store afterwards, and in
\* the disk entry too when the write did not fail.
C6_TierOrder ==
    [][ LoadStep =>
          LET kind == last'.kind
              paths == last'.paths
              key == CacheKey(kind, paths)
              sigR == BuildSignature(paths, fs)
          IN
          /\ key \in DOMAIN mem =>
                /\ last'.outcome = "mem"
                /\ last'.result = mem[key]
                /\ ~last'.statted /\ last'.lookup = "none" /\ ~last'.sourceRead
                /\ mem' = mem /\ disk' = disk
          /\ (key \notin DOMAIN mem /\ last'.outcome # "raised") =>
                LET fname == DiskCachePath(kind, sigR.sig) IN
                IF fname \in DOMAIN disk /\ disk[fname].json = "object"
                THEN /\ last'.outcome = "disk"
                     /\ ~last'.sourceRead
                     /\ last'.result = disk[fname].value
                     /\ key \in DOMAIN mem' /\ mem'[key] = last'.result
                     /\ disk' = disk
                ELSE /\ last'.outcome = "parsed"
                     /\ last'.sourceRead
                     /\ last'.result = LoadSimpleMaster(paths, fs).table
                     /\ key \in DOMAIN mem' /\ mem'[key] = last'.result
                     /\ last'.write = "ok" =>
                          /\ fname \in DOMAIN disk'
                          /\ disk'[fname] = JsonDump(last'.result)
      ]_vars

C6_Witness ==
    /\ last # None
    /\ last.op = "load"
    /\ last.outcome = "parsed"
    /\ last.write = "ok"
    /\ Len(last.paths) = 2
    /\ CacheKey(last.kind, last.paths) \in DOMAIN mem
    /\ Cardinality(DOMAIN disk) = 2

\* C7: clear_master_cache empties the in-process store and changes no cache
\* file; a load that follows it and finds the disk entry of its category and
\* current signature is served from that entry, without reading the source
\* files.
C7_ClearKeepsDisk ==
    [][ nOps' = nOps + 1 =>
          /\ last'.op = "clear" => (mem' = <<>> /\ disk' = disk /\ fs' = fs)
          /\ (last'.op = "load" /\ prevOp' = "clear"
                /\ BuildSignature(last'.paths, fs).raised = "no") =>
                LET fname == DiskCachePath(last'.kind,
                                           BuildSignature(last'.paths, fs).sig)
                IN (fname \in DOMAIN disk /\ disk[fname].json = "object") =>
                      /\ last'.outcome = "disk"
                      /\ ~last'.sourceRead
                      /\ last'.result = disk[fname].value
      ]_vars

C7_Witness ==
    /\ last # None
    /\ last.op = "load"
    /\ prevOp = "clear"
    /\ last.outcome = "disk"
    /\ last.result = ReadFiles(last.paths, fs, EmptyTable)

\* the load finds a cache file for its category and signature that does not
\* hold a dict, and its source files can be read
CorruptEntryMet ==
    /\ LoadStep
    /\ CacheKey(last'.kind, last'.paths) \notin DOMAIN mem
    /\ Readable(last'.paths, fs)
    /\ LET fname == DiskCachePath(last'.kind, BuildSignature(last'.paths, fs).sig)
       IN fname \in DOMAIN disk /\ disk[fname].json # "object"

\* C10 as stated: a load that meets such a cache file raises no error,
\* returns the table recomputed from the source files, and has rewritten the
\* cache entry when it returns.
C10_CorruptRewritten ==
    [][ CorruptEntryMet =>
          LET fname == DiskCachePath(last'.kind, BuildSignature(last'.paths, fs).sig)
          IN /\ last'.outcome = "parsed"
             /\ last'.result = LoadSimpleMaster(last'.paths, fs).table
             /\ disk'[fname] = JsonDump(last'.result)
      ]_vars

\* C10 amended: a load that reaches the disk tier and meets such a cache file
\* raises no error and returns the table recomputed from the source files,
\* as on a miss; the in-process store holds it; the cache entry is rewritten
\* when the write succeeds (a failed write is swallowed).
C10_CorruptLikeMiss ==
    [][ CorruptEntryMet =>
          LET key == CacheKey(last'.kind, last'.paths)
              fname == DiskCachePath(last'.kind, BuildSignature(last'.paths, fs).sig)
          IN /\ last'.outcome = "parsed"
             /\ last'.lookup = "corrupt"
             /\ last'.result = LoadSimpleMaster(last'.paths, fs).table
             /\ key \in DOMAIN mem' /\ mem'[key] = last'.result
             /\ last'.write = "ok" => disk'[fname] = JsonDump(last'.result)
      ]_vars

C10_Witness ==
    /\ last # None
    /\ last.op = "load"
    /\ last.lookup = "corrupt"
    /\ last.outcome = "parsed"
    /\ last.write = "ok"
    /\ disk[DiskCachePath(last.kind, BuildSignature(last.paths, fs).sig)]
         = JsonDump(last.result)

\* the load gets past the in-process store, the signature is computed and the
\* source files can be read
DiskTierReached ==
    /\ LoadStep
    /\ CacheKey(last'.kind, last'.paths) \notin DOMAIN mem
    /\ BuildSignature(last'.paths, fs).raised = "no"
    /\ Readable(last'.paths, fs)

\* C11: whatever fails in the disk tier (the cache directory cannot be
\* created, the cache file cannot be written), a cached load whose source
\* files can be read raises no error and returns a table: the disk entry
\* when there is a readable one, else the table recomputed from the source
\* files.
C11_DiskFailureSwallowed ==
    [][ DiskTierReached =>
          /\ last'.outcome \in {"disk", "parsed"}
          /\ last'.outcome = "parsed" =>
                last'.result = LoadSimpleMaster(last'.paths, fs).table
      ]_vars

\* C14: every load that returns gives the table the uncached loader gives
\* for the path list of that call, in the order supplied, as long as no
\* file has changed since the process started.
C14_CacheTransparent ==
    (last # None /\ last.op = "load" /\ last.outcome # "raised"
       /\ \A p \in PathPool : fs[p] = InitialFiles[p])
    => last.result = LoadSimpleMaster(last.paths, InitialFiles).table

---------------------------------------------------------------------------
(* load_modifier_master and its two cache files: master_loader.py *)

Modifier     == <<"m", "o", "d", "i", "f", "i", "e", "r">>
ModifierName == Modifier \o <<"_", "n", "a", "m", "e">>
ModifierKana == Modifier \o <<"_", "k", "a", "n", "a">>

\* what a modifier master file holds: its rows, as the texts safe(1), safe(2),
\* safe(6), safe(9) give
ModRowsX == << [kind |-> <<"Z">>, code |-> <<"c", "1">>, name |-> <<"x">>, kana |-> <<"k">>] >>
ModRowsY == << [kind |-> <<>>, code |-> <<"c", "1">>, name |-> <<"y">>, kana |-> <<>>],
               [kind |-> <<"S">>, code |-> <<"c", "2">>, name |-> <<"y">>, kana |-> <<"k">>] >>

\* the loop body of load_modifier_master over the rows of one file
RECURSIVE AddModifierRows(_, _)
AddModifierRows(pair, rows) ==
    IF rows = <<>> THEN pair
    ELSE LET r == Head(rows) IN
         IF (r.kind # <<>> /\ r.kind # <<"Z">>) \/ r.code = <<>>
         THEN AddModifierRows(pair, Tail(rows))
         ELSE AddModifierRows(
                  [name_by_code |-> IF r.name # <<>>
                                    THEN (r.code :> r.name) @@ pair.name_by_code
                                    ELSE pair.name_by_code,
                   kana_by_code |-> IF r.kana # <<>>
                                    THEN (r.code :> r.kana) @@ pair.kana_by_code
                                    ELSE pair.kana_by_code],
                  Tail(rows))

RECURSIVE ReadModifierFiles(_, _, _)
ReadModifierFiles(paths, f, pair) ==
    IF paths = <<>> THEN pair
    ELSE ReadModifierFiles(Tail(paths), f, AddModifierRows(pair, f[Head(paths)].rows))

\* lines 176-206 of load_modifier_master: the two dicts, or the exception of
\* read_bytes
ParseModifierMaster(paths, f) ==
    IF Readable(paths, f)
    THEN [raised |-> "no",
          table |-> ReadModifierFiles(paths, f,
                        [name_by_code |-> <<>>, kana_by_code |-> <<>>])]
    ELSE [raised |-> "OSError"]

\* a hit as soon as the name file holds a dict, the kana file not looked at
LoadModifierFromDiskNameOnly(d, signature) ==
    LET name_file == DiskCachePath(ModifierName, signature) IN
    IF name_file \notin DOMAIN d THEN None
    ELSE IF d[name_file].json = "object"
         THEN [name_by_code |-> d[name_file].value, kana_by_code |-> <<>>]
         ELSE None

\* _load_modifier_from_disk once the signature is known: the two dicts, or None
LoadModifierFromDisk(d, signature) ==
    LET name_file == DiskCachePath(ModifierName, signature)
        kana_file == DiskCachePath(ModifierKana, signature)
    IN
    IF name_file \notin DOMAIN d \/ kana_file \notin DOMAIN d THEN None
    ELSE IF d[name_file].json = "object" /\ d[kana_file].json = "object"
         THEN [name_by_code |-> d[name_file].value,
               kana_by_code |-> d[kana_file].value]
         ELSE None

\* what the load saw of the two files, for `last`
ModifierLookup(d, signature) ==
    LET name_file == DiskCachePath(ModifierName, signature)
        kana_file == DiskCachePath(ModifierKana, signature)
    IN
    IF LoadModifierFromDisk(d, signature) # None THEN "hit"
    ELSE IF name_file \notin DOMAIN d /\ kana_file \notin DOMAIN d THEN "absent"
    ELSE IF name_file \notin DOMAIN d \/ kana_file \notin DOMAIN d THEN "half"
    ELSE "corrupt"

\* the writes of _save_modifier_to_disk, both in one try: done, or the first
\* or the second failed in open() or while dumping
ModifierWriteOutcomes ==
    {"ok", "name_openfail", "name_partial", "kana_openfail", "kana_partial"}

SaveModifierToDisk(d, signature, pair, wr) ==
    LET name_file == DiskCachePath(ModifierName, signature)
        kana_file == DiskCachePath(ModifierKana, signature)
        nameDone  == (name_file :> JsonDump(pair.name_by_code)) @@ d
    IN
    CASE wr = "ok"            -> (kana_file :> JsonDump(pair.kana_by_code)) @@ nameDone
      [] wr = "name_openfail" -> d
      [] wr = "name_partial"  -> (name_file :> JsonInvalid) @@ d
      [] wr = "kana_openfail" -> nameDone
      [] wr = "kana_partial"  -> (kana_file :> JsonInvalid) @@ nameDone

\* load_modifier_master(paths): key in _MASTER_CACHE
ModLoadMemHit(paths) ==
    LET key == CacheKey(Modifier, paths) IN
    /\ CanStep
    /\ key \in DOMAIN mem
    /\ Step("load")
    /\ last' = LoadRecord(Modifier, paths, "mem", mem[key], FALSE, "none", FALSE, "none")
    /\ UNCHANGED <<fs, mem, memSig, disk, groupVars, sigVars, restVars>>

\* ... the key is not in _MASTER_CACHE and the load raises: from stat() in
\* _build_signature, from mkdir() in _get_cache_dir, or from read_bytes()
ModLoadRaises(paths, mkdirOk) ==
    LET key  == CacheKey(Modifier, paths)
        sigR == BuildSignature(paths, fs)
    IN
    /\ CanStep
    /\ key \notin DOMAIN mem
    /\ mkdirOk = FALSE => DOMAIN disk = {}
    /\ \/ sigR.raised # "no"
       \/ ~mkdirOk
       \/ /\ sigR.raised = "no"
          /\ LoadModifierFromDisk(disk, sigR.sig) = None
          /\ ParseModifierMaster(paths, fs).raised # "no"
    /\ Step("load")
    /\ last' = LoadRecord(Modifier, paths, "raised", None, TRUE,
                          IF sigR.raised = "no" /\ mkdirOk
                          THEN ModifierLookup(disk, sigR.sig)
                          ELSE "none",
                          sigR.raised = "no" /\ mkdirOk, "none")
    /\ UNCHANGED <<fs, mem, memSig, disk, groupVars, sigVars, restVars>>

\* ... the key is not in _MASTER_CACHE and _load_modifier_from_disk gives the
\* two dicts
ModLoadDiskHit(paths) ==
    LET key  == CacheKey(Modifier, paths)
        sigR == BuildSignature(paths, fs)
    IN
    /\ CanStep
    /\ key \notin DOMAIN mem
    /\ sigR.raised = "no"
    /\ LET cached == LoadModifierFromDisk(disk, sigR.sig) IN
       /\ cached # None
       /\ mem' = Store(mem, key, cached)
       /\ memSig' = (key :> sigR.sig) @@ memSig
       /\ last' = LoadRecord(Modifier, paths, "disk", cached, TRUE, "hit", FALSE, "none")
    /\ Step("load")
    /\ UNCHANGED <<fs, disk, groupVars, sigVars, restVars>>

\* ... a miss in both tiers: the two dicts are computed, both files and the
\* in-process store are written
ModLoadMiss(paths, wr) ==
    LET key  == CacheKey(Modifier, paths)
        sigR == BuildSignature(paths, fs)
        made == ParseModifierMaster(paths, fs)
    IN
    /\ CanStep
    /\ key \notin DOMAIN mem
    /\ sigR.raised = "no"
    /\ made.raised = "no"
    /\ LoadModifierFromDisk(disk, sigR.sig) = None
    /\ disk' = SaveModifierToDisk(disk, sigR.sig, made.table, wr)
    /\ last' = LoadRecord(Modifier, paths, "parsed", made.table, TRUE,
                          ModifierLookup(disk, sigR.sig), TRUE, wr)
    /\ mem' = Store(mem, key, made.table)
    /\ memSig' = (key :> sigR.sig) @@ memSig
    /\ Step("load")
    /\ UNCHANGED <<fs, groupVars, sigVars, restVars>>

\* outside the program: a cache file is removed
RemoveCacheFile(fname) ==
    /\ CanStep
    /\ fname \in DOMAIN disk
    /\ disk' = [g \in DOMAIN disk \ {fname} |-> disk[g]]
    /\ Step("env")
    /\ last' = EnvRecord
    /\ UNCHANGED <<fs, mem, memSig, groupVars, sigVars, restVars>>

ModInit ==
    /\ fs = (PathA :> [st |-> "file", mtime |-> 1, size |-> 1, rows |-> ModRowsX])
            @@ (PathB :> [st |-> "file", mtime |-> 1, size |-> 2, rows |-> ModRowsY])
    /\ mem = <<>>
    /\ memSig = <<>>
    /\ disk = <<>>
    /\ last = None
    /\ prevOp = "none"
    /\ nOps = 0
    /\ GroupIdle
    /\ SigIdle
    /\ RestIdle

ModNext ==
    \/ \E paths \in CachePathLists : ModLoadMemHit(paths)
    \/ \E paths \in CachePathLists, mkdirOk \in BOOLEAN : ModLoadRaises(paths, mkdirOk)
    \/ \E paths \in CachePathLists : ModLoadDiskHit(paths)
    \/ \E paths \in CachePathLists, wr \in ModifierWriteOutcomes : ModLoadMiss(paths, wr)
    \/ ClearMasterCache
    \/ \E p \in PathPool : LoseFile(p)
    \/ \E fname \in DOMAIN disk : RemoveCacheFile(fname)
    \/ \E fname \in DOMAIN disk : CorruptCacheFile(fname)

SpecMod == ModInit /\ [][ModNext]_vars

\* both cache files of the signature exist and both hold a dict
BothModifierFilesGood(d, signature) ==
    LET name_file == DiskCachePath(ModifierName, signature)
        kana_file == DiskCachePath(ModifierKana, signature)
    IN /\ name_file \in DOMAIN d /\ d[name_file].json = "object"
       /\ kana_file \in DOMAIN d /\ d[kana_file].json = "object"

\* C12: a load_modifier_master call that gets past the in-process store and
\* computes the signature is a disk hit exactly when the modifier_name and
\* the modifier_kana file of that signature both exist and both hold a dict,
\* and it then returns their contents without reading the source files; when
\* either file is absent or unreadable the load is a miss: unless it raises,
\* it reads the source files and returns both dicts recomputed from them.
C12_BothFilesOrMiss ==
    [][ (LoadStep /\ last'.kind = Modifier
           /\ CacheKey(Modifier, last'.paths) \notin DOMAIN mem
           /\ BuildSignature(last'.paths, fs).raised = "no") =>
          LET signature == BuildSignature(last'.paths, fs).sig
              name_file == DiskCachePath(ModifierName, signature)
              kana_file == DiskCachePath(ModifierKana, signature)
          IN
          IF BothModifierFilesGood(disk, signature)
          THEN /\ last'.outcome = "disk"
               /\ ~last'.sourceRead
               /\ last'.result = [name_by_code |-> disk[name_file].value,
                                  kana_by_code |-> disk[kana_file].value]
          ELSE /\ last'.outcome \in {"parsed", "raised"}
               /\ last'.outcome = "parsed" =>
                     /\ last'.sourceRead
                     /\ last'.result = ParseModifierMaster(last'.paths, fs).table
      ]_vars

\* a load met the name file alone, holding a dict, and recomputed both dicts
C12_Witness ==
    /\ last # None
    /\ last.op = "load"
    /\ last.kind = Modifier
    /\ last.lookup = "half"
    /\ last.outcome = "parsed"
    /\ last.write = "ok"
    /\ DOMAIN last.result.kana_by_code # {}
    /\ BothModifierFilesGood(disk, BuildSignature(last.paths, fs).sig)

---------------------------------------------------------------------------
(* load_simple_master on csv rows: master_loader.py *)

\* kana_col=None
NoColumn == -1

\* safe(idx): row[idx].strip() when the row has that column, else ""
Safe(row, idx) == IF Len(row) > idx THEN Strip(row[idx + 1]) ELSE <<>>

\* code, name and kana of one csv row
ExtractRow(row, code_col, name_col, kana_col) ==
    [code |-> Safe(row, code_col),
     name |-> Safe(row, name_col),
     kana |-> IF kana_col # NoColumn THEN Safe(row, kana_col) ELSE <<>>]

\* the rows of one file that get past `if not row: continue`, extracted
RECURSIVE ExtractRows(_, _, _, _)
ExtractRows(rows, code_col, name_col, kana_col) ==
    IF rows = <<>> THEN <<>>
    ELSE IF Head(rows) = <<>>
         THEN ExtractRows(Tail(rows), code_col, name_col, kana_col)
         ELSE <<ExtractRow(Head(rows), code_col, name_col, kana_col)>>
              \o ExtractRows(Tail(rows), code_col, name_col, kana_col)

\* load_simple_master over the rows csv.reader gives for each file
RECURSIVE SimpleMasterOf(_, _, _, _, _)
SimpleMasterOf(files, code_col, name_col, kana_col, master) ==
    IF files = <<>> THEN master
    ELSE SimpleMasterOf(Tail(files), code_col, name_col, kana_col,
             AddRows(master, ExtractRows(Head(files), code_col, name_col, kana_col)))

\* the csv rows the inputs are drawn from: code, name, kana in columns 0, 1, 2
SimpleRowPool ==
    { << <<" ", "c", "1", " ">>, <<"x">>, <<"k">> >>,   \* c1 -> x, k (code padded)
      << <<"c", "1">>, <<"y">>, <<>> >>,                \* c1 -> y, ""
      << <<"c", "1">>, <<" ">>, <<>> >>,                \* name blank, kana empty
      << <<>>, <<"y">>, <<"k">> >>,                     \* code empty
      << <<"c", "1">> >>,                               \* no name or kana column
      << <<"c", "2">>, <<>>, <<"k">> >>,                \* c2 -> "", k
      << >> }                                           \* an empty row

FlatRows == UNION { [1..n -> SimpleRowPool] : n \in 0..MaxRows }

\* the file each row is in: files are filled in order
Owners(n, k) == { o \in [1..n -> 1..k] : \A i \in 1..(n - 1) : o[i] <= o[i + 1] }

FilesOf(flat, owner, k) ==
    [i \in 1..k |->
        LET before == Cardinality({ j \in 1..Len(flat) : owner[j] < i })
            upto   == Cardinality({ j \in 1..Len(flat) : owner[j] <= i })
        IN SubSeq(flat, before + 1, upto)]

\* k files holding the rows of flat, at most MaxRows together
SimpleInputs(flat, k) == { FilesOf(flat, owner, k) : owner \in Owners(Len(flat), k) }

\* the call
SimpleApply ==
    /\ smArgs # None
    /\ smOut = None
    /\ smOut' = [table |-> SimpleMasterOf(smArgs.files, smArgs.code_col,
                                          smArgs.name_col, smArgs.kana_col, EmptyTable)]
    /\ UNCHANGED <<smArgs, groupVars, sigVars, tailVars, cacheVars, cfgVars, winVars, parseVars>>

SimpleInit ==
    /\ \E k \in 1..MaxPaths, flat \in FlatRows, kc \in {2, NoColumn} :
       \E fl \in SimpleInputs(flat, k) :
           smArgs = [files |-> fl, code_col |-> 0, name_col |-> 1, kana_col |-> kc]
    /\ smOut = None
    /\ GroupIdle
    /\ SigIdle
    /\ TailIdle
    /\ CacheIdle
    /\ CfgIdle
    /\ WinIdle
    /\ ParseIdle

SimpleNext == SimpleApply

SpecSimple == SimpleInit /\ [][SimpleNext]_vars

\* the rows of all files in processing order, extracted
RECURSIVE RowsInOrder(_)
RowsInOrder(files) ==
    IF files = <<>> THEN <<>>
    ELSE ExtractRows(Head(files), smArgs.code_col, smArgs.name_col, smArgs.kana_col)
         \o RowsInOrder(Tail(files))

\* a row with a code and with a name or a kana
Contributes(r) == r.code # <<>> /\ (r.name # <<>> \/ r.kana # <<>>)

\* C13: the table load_simple_master returns holds exactly the codes of the
\* contributing rows (code not empty, name or kana not empty, after strip),
\* and for each code the name and kana of the contributing row processed
\* last, files taken in the order supplied and rows in file order; a row
\* that does not contribute changes nothing.
C13_LastRowWins ==
    smOut # None =>
        LET rows == RowsInOrder(smArgs.files)
            contributing == { i \in 1..Len(rows) : Contributes(rows[i]) }
        IN /\ DOMAIN smOut.table = { rows[i].code : i \in contributing }
           /\ \A i \in contributing :
                 (\A j \in contributing : j > i => rows[j].code # rows[i].code)
                 => smOut.table[rows[i].code]
                      = [name |-> rows[i].name, kana |-> rows[i].kana]

\* two files define c1 differently, and a row of c1 that does not contribute
\* comes last: the entry is the one of the second file
C13_Witness ==
    /\ smOut # None
    /\ Len(smArgs.files) = 2
    /\ smArgs.kana_col = 2
    /\ smArgs.files[1] = << << <<" ", "c", "1", " ">>, <<"x">>, <<"k">> >> >>
    /\ smArgs.files[2] = << << <<"c", "1">>, <<"y">>, <<>> >>,
                            << <<"c", "1">>, <<" ">>, <<>> >> >>
    /\ smOut.table = (<<"c", "1">> :> [name |-> <<"y">>, kana |-> <<>>])

---------------------------------------------------------------------------
(* The master-path configuration: save_master_paths, load_all_master_paths *)

\* Path(s): the anchor and the components of s, "" and "." components dropped
PathOfStr(s) ==
    [anchored |-> s # <<>> /\ Head(s) = "/",
     parts    |-> SelectSeq(Split(s, "/"), LAMBDA c : c # <<>> /\ c # <<".">>)]

\* str(p)
StrOfPath(p) ==
    IF p.anchored THEN <<"/">> \o Join(p.parts, <<"/">>)
    ELSE IF p.parts = <<>> THEN <<".">>
    ELSE Join(p.parts, <<"/">>)

\* the values of the top-level keys of a configuration file
JsonList(items) == [list |-> TRUE, items |-> items]    \* an array of strings
JsonScalar      == [list |-> FALSE, items |-> <<>>]    \* anything else

UnknownKey == <<"z", "z">>

\* [str(p) for p in paths]
StrList(paths) == [i \in 1..Len(paths) |-> StrOfPath(paths[i])]

\* [Path(p) for p in path_list]
PathList(items) == [i \in 1..Len(items) |-> PathOfStr(items[i])]

\* lines 415-425 of save_master_paths: the dict the file holds, or {}
ExistingConfig(file) ==
    IF file # None /\ file.json = "object" THEN file.value ELSE <<>>

\* data[category] = [str(p) for p in paths] put over the other keys' values
SaveDropsOthers(data, category, paths) == (category :> JsonList(StrList(paths)))

\* data[category] = [str(p) for p in paths]
SetCategory(data, category, paths) == (category :> JsonList(StrList(paths))) @@ data

\* config_path.write_text(json.dumps(data)): done, or failed in open() (the
\* file is as it was), or failed while writing (a truncated file is left)
WriteConfig(file, data, cw) ==
    CASE cw = "ok"       -> JsonDump(data)
      [] cw = "openfail" -> file
      [] cw = "partial"  -> JsonInvalid

\* lines 447-461 of load_all_master_paths applied to the file it opens
ReadMasterPaths(file) ==
    IF file = None \/ file.json # "object" THEN <<>>
    ELSE LET raw == file.value IN
         [kind \in { k \in DOMAIN raw : raw[k].list } |-> PathList(raw[kind].items)]

\* save_master_paths(category, paths): reads and writes
\* Path.home() / ".openreceview_master_paths.json"
SaveMasterPaths(category, paths, cw) ==
    /\ CanStep
    /\ homeCfg' = WriteConfig(homeCfg,
                              SetCategory(ExistingConfig(homeCfg), category, paths), cw)
    /\ Step("save")
    /\ last' = [op |-> "save", category |-> category, paths |-> paths, write |-> cw]
    /\ UNCHANGED <<cacheCfg, fs, mem, memSig, disk, groupVars, sigVars, tailVars, simpleVars,
                   winVars, parseVars>>

\* load_all_master_paths(): reads _CONFIG_FILE = _get_cache_dir() / "master_paths.json"
LoadAllMasterPaths ==
    /\ CanStep
    /\ Step("loadpaths")
    /\ last' = [op |-> "loadpaths", result |-> ReadMasterPaths(cacheCfg)]
    /\ UNCHANGED <<homeCfg, cacheCfg, fs, mem, memSig, disk, groupVars, sigVars, tailVars,
                   simpleVars, winVars, parseVars>>

\* the path lists a save is given, as Path objects
ConfigPathLists ==
    { PathList(l) : l \in { <<PathA>>, <<PathB, PathA>> } }

\* what a configuration file can hold when the process starts
ConfigPool ==
    { None, JsonInvalid, JsonArray,
      JsonDump((UnknownKey :> JsonList(<<PathA>>))
               @@ (Disease :> JsonList(<<PathB, PathA>>))
               @@ (Modifier :> JsonScalar)) }

CfgInit ==
    /\ homeCfg \in ConfigPool
    /\ cacheCfg \in ConfigPool
    /\ fs = <<>> /\ mem = <<>> /\ memSig = <<>> /\ disk = <<>>
    /\ last = None /\ prevOp = "none" /\ nOps = 0
    /\ GroupIdle
    /\ SigIdle
    /\ TailIdle
    /\ SimpleIdle
    /\ WinIdle
    /\ ParseIdle

CfgNext ==
    \/ \E category \in Kinds, paths \in ConfigPathLists, cw \in WriteOutcomes :
         SaveMasterPaths(category, paths, cw)
    \/ LoadAllMasterPaths

SpecCfg == CfgInit /\ [][CfgNext]_vars

\* C16: once save_master_paths(category, paths) has written the
\* configuration, load_all_master_paths() returns for that category exactly
\* the saved paths, in the saved order.
C16_RoundTrip ==
    (last # None /\ last.op = "save" /\ last.write = "ok") =>
        LET result == ReadMasterPaths(cacheCfg) IN
        /\ last.category \in DOMAIN result
        /\ result[last.category] = last.paths

\* the step is a save_master_paths call / a load_all_master_paths call
SaveStep == nOps' = nOps + 1 /\ last'.op = "save"
LoadPathsStep == nOps' = nOps + 1 /\ last'.op = "loadpaths"

\* every other top-level key of the file keeps its value
OthersKept ==
    LET before == ExistingConfig(homeCfg) IN
    \A k \in DOMAIN before \ {last'.category} :
        /\ homeCfg' # None
        /\ homeCfg'.json = "object"
        /\ k \in DOMAIN homeCfg'.value
        /\ homeCfg'.value[k] = before[k]

---------------------------------------------------------------------------
(* The window's master handlers: gui/main_window.py, _on_load_disease_master
   and _on_load_shinryo_master *)

\* a cached loader left by an exception: nothing was stored
LoadFailed(m, d, why) ==
    [raised |-> why, outcome |-> "raised", table |-> None, mem |-> m, disk |-> d]

\* load_disease_master(paths) / load_shinryo_master(paths) as one call: what
\* it returns or raises, and _MASTER_CACHE and the cache files after it
CachedLoad(kind, paths, m, d, f, wr, mkdirOk) ==
    LET key  == CacheKey(kind, paths)
        sigR == BuildSignature(paths, f)
    IN
    IF key \in DOMAIN m
    THEN [raised |-> "no", outcome |-> "mem", table |-> m[key], mem |-> m, disk |-> d]
    ELSE IF sigR.raised # "no" THEN LoadFailed(m, d, "stat")
    ELSE IF ~mkdirOk THEN LoadFailed(m, d, "mkdir")
    ELSE LET fname == DiskCachePath(kind, sigR.sig) IN
         IF DiskLookup(d, fname) = "hit"
         THEN LET cached == ReadCacheFile(d[fname]) IN
              [raised |-> "no", outcome |-> "disk", table |-> cached,
               mem |-> Store(m, key, cached), disk |-> d]
         ELSE LET made == LoadSimpleMaster(paths, f) IN
              IF made.raised # "no" THEN LoadFailed(m, d, "read")
              ELSE [raised |-> "no", outcome |-> "parsed", table |-> made.table,
                    mem |-> Store(m, key, made.table),
                    disk |-> SaveToDisk(d, fname, made.table, wr)]

\* the window's table emptied when the load fails
TableAfterLoadEmptied(tables, kind, r) ==
    IF r.raised # "no" THEN [tables EXCEPT ![kind] = EmptyTable]
    ELSE [tables EXCEPT ![kind] = r.table]

\* try: master = load_...(path_objs) / except: warning, return /
\* self._..._master = master
TableAfterLoad(tables, kind, r) ==
    IF r.raised # "no" THEN tables ELSE [tables EXCEPT ![kind] = r.table]

\* save_master_paths(kind, path_objs), reached only after the assignment
ConfigAfterLoad(file, kind, paths, r, cw) ==
    IF r.raised # "no" THEN file
    ELSE WriteConfig(file, SetCategory(ExistingConfig(file), kind, PathList(paths)), cw)

\* _on_load_disease_master / _on_load_shinryo_master with the files chosen
OnLoadMaster(kind, paths, wr, mkdirOk, cw) ==
    /\ CanStep
    /\ mkdirOk = FALSE => DOMAIN disk = {}
    /\ \E r \in {CachedLoad(kind, paths, mem, disk, fs, wr, mkdirOk)} :
         /\ mem' = r.mem
         /\ disk' = r.disk
         /\ memSig' = IF r.outcome \in {"disk", "parsed"}
                      THEN (CacheKey(kind, paths) :> BuildSignature(paths, fs).sig)
                           @@ memSig
                      ELSE memSig
         /\ winTables' = TableAfterLoad(winTables, kind, r)
         /\ homeCfg' = ConfigAfterLoad(homeCfg, kind, paths, r, cw)
         /\ last' = [op |-> "onload", kind |-> kind, paths |-> paths,
                     raised |-> r.raised, outcome |-> r.outcome]
    /\ Step("onload")
    /\ UNCHANGED <<fs, cacheCfg, groupVars, sigVars, tailVars, simpleVars, parseVars>>

\* the path lists chosen in the file dialog
WinPathLists == { <<PathA>>, <<PathA, PathB>> }

\* self._disease_master = {} , self._shinryo_master = {}
WinInit ==
    /\ winTables = [kind \in Kinds |-> EmptyTable]
    /\ homeCfg = None
    /\ cacheCfg = None
    /\ fs = InitialFiles
    /\ mem = <<>>
    /\ memSig = <<>>
    /\ disk = <<>>
    /\ last = None
    /\ prevOp = "none"
    /\ nOps = 0
    /\ GroupIdle
    /\ SigIdle
    /\ TailIdle
    /\ SimpleIdle
    /\ ParseIdle

WinNext ==
    \/ \E kind \in Kinds, paths \in WinPathLists, wr \in WriteOutcomes,
          mkdirOk \in BOOLEAN, cw \in WriteOutcomes :
         OnLoadMaster(kind, paths, wr, mkdirOk, cw)
    \/ \E p \in PathPool : LoseFile(p)

SpecWin == WinInit /\ [][WinNext]_vars

\* C15: a handler call whose load fails changes nothing: the window's
\* tables, the configuration file, the in-process store and the cache files
\* are as they were.
C15_FailedLoadKeepsState ==
    [][ (nOps' = nOps + 1 /\ last'.op = "onload" /\ last'.raised # "no") =>
          /\ winTables' = winTables
          /\ homeCfg' = homeCfg
          /\ mem' = mem
          /\ disk' = disk
      ]_vars

\* a load fails in read_bytes after the category was loaded and saved: the
\* table and the saved paths of the earlier load are still there
C15_Witness ==
    /\ last # None
    /\ last.op = "onload"
    /\ last.raised = "read"
    /\ winTables[last.kind] # EmptyTable
    /\ homeCfg # None
    /\ homeCfg.json = "object"
    /\ last.kind \in DOMAIN homeCfg.value
    /\ homeCfg.value[last.kind] # JsonList(last.paths)
    /\ CacheKey(last.kind, last.paths) \notin DOMAIN mem

---------------------------------------------------------------------------
(* parse_uke_text: parser/uke_parser.py *)

LF == "\n"
CR == "\r"
FF == "\f"

\* the line boundaries of str.splitlines() among the characters in use
\* ("\r\n" counts as one)
LineBreaks == {LF, CR, FF}

\* text.splitlines()
RECURSIVE SplitLinesAcc(_, _)
SplitLinesAcc(s, acc) ==
    IF s = <<>> THEN (IF acc = <<>> THEN <<>> ELSE <<acc>>)
    ELSE IF Head(s) = CR /\ Len(s) >= 2 /\ s[2] = LF
         THEN <<acc>> \o SplitLinesAcc(SubSeq(s, 3, Len(s)), <<>>)
    ELSE IF Head(s) \in LineBreaks
         THEN <<acc>> \o SplitLinesAcc(Tail(s), <<>>)
    ELSE SplitLinesAcc(Tail(s), Append(acc, Head(s)))

SplitLines(s) == SplitLinesAcc(s, <<>>)

\* line.rstrip("\r\n")
RECURSIVE RStripNewlines(_)
RStripNewlines(s) ==
    IF s # <<>> /\ s[Len(s)] \in {CR, LF}
    THEN RStripNewlines(SubSeq(s, 1, Len(s) - 1))
    ELSE s

\* a line dropped only when it has no character at all
IsBlankEmptyOnly(raw) == raw = <<>>

\* not raw.strip()
IsBlank(raw) == Strip(raw) = <<>>

\* the `raw` of the line the loop is at
CurrentRaw == RStripNewlines(SplitLines(ptext)[pidx])

\* the call: the argument is bound, enumerate starts at 1
ParseCall ==
    /\ ppc = "idle"
    /\ ppc' = "loop"
    /\ pidx' = 1
    /\ precords' = <<>>
    /\ UNCHANGED <<ptext, groupVars, sigVars, tailVars, cacheVars, simpleVars, cfgVars, winVars>>

\* loop body, `if not raw.strip(): continue`
ParseSkipBlank ==
    /\ ppc = "loop"
    /\ pidx <= Len(SplitLines(ptext))
    /\ IsBlank(CurrentRaw)
    /\ pidx' = pidx + 1
    /\ UNCHANGED <<ptext, precords, ppc, groupVars, sigVars, tailVars, cacheVars, simpleVars,
                   cfgVars, winVars>>

\* loop body, a record is appended
ParseAppend ==
    /\ ppc = "loop"
    /\ pidx <= Len(SplitLines(ptext))
    /\ ~IsBlank(CurrentRaw)
    /\ precords' = Append(precords, UkeRecord(pidx, CurrentRaw))
    /\ pidx' = pidx + 1
    /\ UNCHANGED <<ptext, ppc, groupVars, sigVars, tailVars, cacheVars, simpleVars, cfgVars,
                   winVars>>

\* after the loop: return records
ParseReturn ==
    /\ ppc = "loop"
    /\ pidx > Len(SplitLines(ptext))
    /\ ppc' = "done"
    /\ UNCHANGED <<ptext, pidx, precords, groupVars, sigVars, tailVars, cacheVars, simpleVars,
                   cfgVars, winVars>>

\* the characters the texts are drawn from
ParseChars == {"R", "E", ",", " ", LF, CR, FF}

ParseInputs == UNION { [1..n -> ParseChars] : n \in 0..MaxText }

ParseInit ==
    /\ ptext \in ParseInputs
    /\ pidx = 0
    /\ precords = <<>>
    /\ ppc = "idle"
    /\ GroupIdle
    /\ SigIdle
    /\ TailIdle
    /\ CacheIdle
    /\ SimpleIdle
    /\ CfgIdle
    /\ WinIdle

ParseNext ==
    \/ ParseCall
    \/ ParseSkipBlank
    \/ ParseAppend
    \/ ParseReturn

SpecParse == ParseInit /\ [][ParseNext]_vars

---------------------------------------------------------------------------
(* Properties of parse_uke_text *)

\* the numbers of the lines of the text that are not blank after trimming
NonBlankLines ==
    { i \in 1..Len(SplitLines(ptext)) : Strip(SplitLines(ptext)[i]) # <<>> }

C19_FieldsJoinToRaw ==
    \A k \in 1..Len(precords) : Join(precords[k].fields, <<",">>) = precords[k].raw

\* a record with three fields, one empty and one with a blank
C19_Witness ==
    /\ ppc = "done"
    /\ Len(precords) = 1
    /\ Len(precords[1].fields) = 3
    /\ \E i \in 1..3 : precords[1].fields[i] = <<>>
    /\ \E i \in 1..3 : precords[1].fields[i] # Strip(precords[1].fields[i])

\* the run of uppercase letters and digits at the start of the line, after
\* optional leading whitespace
LeadingRun(raw) == UpperOrDigitPrefix(LStrip(raw))

\* C20 as stated: record_type is that run when it has 2 or more characters,
\* and "??" when it has fewer.
C20_TypeIsWholeRun ==
    \A k \in 1..Len(precords) :
        precords[k].record_type
          = IF Len(LeadingRun(precords[k].raw)) >= 2
            THEN LeadingRun(precords[k].raw)
            ELSE UnknownType

\* C20 amended: record_type is the first two characters of that run when the
\* run has 2 or more characters (exactly two are captured, of a longer run
\* too), and "??" when it has fewer; every non-blank line gives a record.
C20_TypeIsFirstTwo ==
    /\ \A k \in 1..Len(precords) :
          precords[k].record_type
            = IF Len(LeadingRun(precords[k].raw)) >= 2
              THEN SubSeq(LeadingRun(precords[k].raw), 1, 2)
              ELSE UnknownType
    /\ ppc = "done" => Len(precords) = Cardinality(NonBlankLines)

\* a line with a run of three after a blank, and a line with no run
C20_Witness ==
    /\ ppc = "done"
    /\ Len(precords) = 1
    /\ Len(LeadingRun(precords[1].raw)) = 3
    /\ Head(precords[1].raw) = " "
    /\ precords[1].record_type = RE

---------------------------------------------------------------------------
(* _split_modifier_codes: parser/uke_parser.py and                         *)
(* gui/receipt_summary_widget.py                                           *)

\* a digit outside ASCII (FULLWIDTH DIGIT TWO): str.isdigit() holds for it
FullWidthTwo == "<2>"
\* CIRCLED DIGIT ONE: str.isdigit() holds for it, int() rejects it
CircledOne == "(1)"

\* ch.isdigit()
IsDigit(ch) == IsDigitChar(ch) \/ ch \in {FullWidthTwo, CircledOne}

\* "".join(ch for ch in raw if ch.isdigit())
DigitsOf(raw) == SelectSeq(raw, IsDigit)

\* digits[i : i + width] for i in range(0, len(digits), width)
Slices(digits, width) ==
    [k \in 1..((Len(digits) + width - 1) \div width) |->
        SubSeq(digits, (k - 1) * width + 1,
               IF k * width <= Len(digits) THEN k * width ELSE Len(digits))]

\* a test that lets the trailing partial chunk through
AnyLength(chunk, width) == TRUE

\* len(chunk) == width
FullWidth(chunk, width) == Len(chunk) = width

\* a scan that moves on by one character after a chunk that is not known
RECURSIVE SplitResync(_, _, _)
SplitResync(digits, known, width) ==
    IF Len(digits) < width THEN <<>>
    ELSE IF SubSeq(digits, 1, width) \in known
         THEN <<SubSeq(digits, 1, width)>>
              \o SplitResync(SubSeq(digits, width + 1, Len(digits)), known, width)
         ELSE SplitResync(Tail(digits), known, width)

\* the loop of uke_parser._split_modifier_codes over the digit string
SplitKnown(digits, known, width) ==
    LET Keep(chunk) == FullWidth(chunk, width) /\ chunk \in known
    IN SelectSeq(Slices(digits, width), Keep)

\* uke_parser._split_modifier_codes(raw, known, width)
SplitModifierCodes(raw, known, width) ==
    IF raw = <<>> THEN <<>>
    ELSE IF DigitsOf(raw) = <<>> THEN <<>>
    ELSE SplitKnown(DigitsOf(raw), known, width)

\* ReceiptSummaryWidget._split_modifier_codes(raw, width): no known-set
WidgetSplitModifierCodes(raw, width) ==
    IF raw = <<>> THEN <<>>
    ELSE IF DigitsOf(raw) = <<>> THEN <<>>
    ELSE LET Keep(chunk) == FullWidth(chunk, width)
         IN SelectSeq(Slices(DigitsOf(raw), width), Keep)

MaxRaw == 5       \* characters in the raw modifier field
MaxWidth == 2     \* the chunk width takes the values 1..MaxWidth

SplitChars == {"1", "2", FullWidthTwo, "x"}

SplitRaws == UNION { [1..n -> SplitChars] : n \in 0..MaxRaw }

\* the key sets of a modifier master
KnownSets == { {}, {<<"1">>, <<"1", "2">>}, {<<"2", "1">>}, {<<"2">>, <<"1", "1">>, <<"2", "2">>} }

\* both functions applied to the same raw string
SplitApply ==
    /\ spArgs # None
    /\ spOut = None
    /\ spOut' = [parser |-> SplitModifierCodes(spArgs.raw, spArgs.known, spArgs.width),
                 widget |-> WidgetSplitModifierCodes(spArgs.raw, spArgs.width)]
    /\ UNCHANGED <<spArgs, coreVars, headVars, attachVars, hsearchVars, msearchVars>>

SplitInit ==
    /\ \E raw \in SplitRaws, known \in KnownSets, width \in 1..MaxWidth :
           spArgs = [raw |-> raw, known |-> known, width |-> width]
    /\ spOut = None
    /\ CoreIdle
    /\ HeadIdle
    /\ AttachIdle
    /\ HSearchIdle
    /\ MSearchIdle

SplitNext == SplitApply

SpecSplit == SplitInit /\ [][SplitNext]_vars

\* the concatenation of a list of chunks
RECURSIVE Concat(_)
Concat(chunks) == IF chunks = <<>> THEN <<>> ELSE Head(chunks) \o Concat(Tail(chunks))

\* C21: without a known-set the result consists of chunks of exactly `width`
\* characters, all of them digits, and their concatenation is the longest
\* prefix of the digit string of raw whose length is a multiple of width
C21_ChunksOfDigitPrefix ==
    spOut # None =>
        LET digits == SelectSeq(spArgs.raw, IsDigit)
            w == spArgs.width
        IN /\ \A i \in 1..Len(spOut.widget) :
                  /\ Len(spOut.widget[i]) = w
                  /\ \A j \in 1..w : IsDigit(spOut.widget[i][j])
           /\ Concat(spOut.widget) = SubSeq(digits, 1, (Len(digits) \div w) * w)
           /\ Len(spOut.widget) = Len(digits) \div w

\* two chunks returned, a non-digit removed and a trailing partial chunk dropped
C21_Witness ==
    /\ spOut # None
    /\ Len(spOut.widget) = 2
    /\ spArgs.width = 2
    /\ Len(spArgs.raw) = MaxRaw
    /\ Len(SelectSeq(spArgs.raw, IsDigit)) = 5
    /\ \E i \in 1..Len(spArgs.raw) : spArgs.raw[i] = FullWidthTwo

\* C22: with a known-set the result is the unfiltered chunk sequence without
\* the chunks that are not in the set, in the same order
C22_FilterOfUnfiltered ==
    spOut # None =>
        LET InKnown(chunk) == chunk \in spArgs.known
        IN spOut.parser = SelectSeq(spOut.widget, InKnown)

\* a chunk is rejected and a later chunk is kept
C22_Witness ==
    /\ spOut # None
    /\ Len(spOut.parser) >= 1
    /\ \E i \in 1..Len(spOut.widget) :
          /\ spOut.widget[i] \notin spArgs.known
          /\ \E j \in (i + 1)..Len(spOut.widget) : spOut.widget[j] \in spArgs.known

---------------------------------------------------------------------------
(* The detectors of parser/receipt_header_parser.py *)

\* a character of [一-龥々] and a character of [ァ-ヶｦ-ﾟ]
Kanji == "<kanji>"
Kana == "<kana>"

\* None where a str is expected, and the exception int() raises, where a
\* str is returned otherwise: sequences holding one token that is no character
Absent == <<"<None>">>
ValueError == <<"<ValueError>">>

\* s.isdigit(): false for the empty string
IsDigitStr(s) == s # <<>> /\ \A i \in 1..Len(s) : IsDigit(s[i])

\* the characters int() accepts
IsDecimal(ch) == IsDigitChar(ch) \/ ch = FullWidthTwo

DecimalValue(ch) ==
    IF ch = FullWidthTwo THEN 2 ELSE (CHOOSE i \in 1..10 : DigitChars[i] = ch) - 1

\* int(s) returns: every character is a decimal digit
CanInt(s) == s # <<>> /\ \A i \in 1..Len(s) : IsDecimal(s[i])

\* int(s) where it returns
RECURSIVE IntOf(_)
IntOf(s) ==
    IF Len(s) = 1 THEN DecimalValue(s[1])
    ELSE IntOf(SubSeq(s, 1, Len(s) - 1)) * 10 + DecimalValue(s[Len(s)])

\* reversed(fields)
Reverse(s) == [i \in 1..Len(s) |-> s[Len(s) + 1 - i]]

\* _detect_yyyymm(fields)
RECURSIVE DetectYyyymm(_)
DetectYyyymm(fields) ==
    IF fields = <<>> THEN Absent
    ELSE LET s == Strip(Head(fields)) IN
         IF Len(s) # 6 \/ ~IsDigitStr(s) THEN DetectYyyymm(Tail(fields))
         ELSE LET year == IntOf(SubSeq(s, 1, 4))
                  month == IntOf(SubSeq(s, 5, 6))
              IN IF ~CanInt(s) THEN ValueError
                 ELSE IF 2000 <= year /\ year <= 2099 /\ 1 <= month /\ month <= 12
                      THEN s
                      ELSE DetectYyyymm(Tail(fields))

RECURSIVE PatientIdScan(_, _)
PatientIdScan(fields, exclude) ==
    IF fields = <<>> THEN Absent
    ELSE LET s == Strip(Head(fields)) IN
         IF ~IsDigitStr(s) THEN PatientIdScan(Tail(fields), exclude)
         ELSE IF exclude # Absent /\ s = exclude THEN PatientIdScan(Tail(fields), exclude)
         ELSE IF 2 <= Len(s) /\ Len(s) <= 10 THEN s
         ELSE PatientIdScan(Tail(fields), exclude)

\* the scan from the first field on
DetectPatientIdForward(fields, exclude) == PatientIdScan(fields, exclude)

\* _detect_patient_id(fields, exclude)
DetectPatientId(fields, exclude) == PatientIdScan(Reverse(fields), exclude)

RECURSIVE NameScan(_, _)
NameScan(fields, ch) ==
    IF fields = <<>> THEN Absent
    ELSE LET s == Strip(Head(fields)) IN
         IF Len(s) < 2 THEN NameScan(Tail(fields), ch)
         ELSE IF \E i \in 1..Len(s) : s[i] = ch THEN s
         ELSE NameScan(Tail(fields), ch)

\* _detect_name(fields)
DetectName(fields) == NameScan(fields, Kanji)

\* _detect_name_kana(fields)
DetectNameKana(fields) == NameScan(Reverse(fields), Kana)

\* _detect_birthday(fields)
RECURSIVE DetectBirthday(_)
DetectBirthday(fields) ==
    IF fields = <<>> THEN Absent
    ELSE LET s == Strip(Head(fields)) IN
         IF Len(s) # 8 \/ ~IsDigitStr(s) THEN DetectBirthday(Tail(fields))
         ELSE LET year == IntOf(SubSeq(s, 1, 4))
                  month == IntOf(SubSeq(s, 5, 6))
                  day == IntOf(SubSeq(s, 7, 8))
              IN IF ~CanInt(s) THEN ValueError
                 ELSE IF /\ 1900 <= year /\ year <= 2099 /\ 1 <= month /\ month <= 12
                         /\ 1 <= day /\ day <= 31
                      THEN s
                      ELSE DetectBirthday(Tail(fields))

One == <<"1">>
Two == <<"2">>

\* for f in fields: s = f.strip(); if s in ("1", "2"): return s
RECURSIVE FirstSexAnywhere(_)
FirstSexAnywhere(fields) ==
    IF fields = <<>> THEN Absent
    ELSE IF Strip(Head(fields)) \in {One, Two} THEN Strip(Head(fields))
    ELSE FirstSexAnywhere(Tail(fields))

\* fields.index(name) as a 0-based index; -1 when name is no element
IndexOf(fields, name) ==
    IF \E i \in 1..Len(fields) : fields[i] = name
    THEN (CHOOSE i \in 1..Len(fields) :
              fields[i] = name /\ \A j \in 1..(i - 1) : fields[j] # name) - 1
    ELSE -1

\* a window one position wider
SexWindowWide(idx, n) == { i \in (idx + 1)..(idx + 4) : i < n }

\* range(idx + 1, min(len(fields), idx + 4)), 0-based
SexWindow(idx, n) == { i \in (idx + 1)..(idx + 3) : i < n }

\* _detect_sex(fields)
DetectSex(fields) ==
    LET name == DetectName(fields) IN
    IF name = Absent THEN FirstSexAnywhere(fields)
    ELSE LET idx == IndexOf(fields, name)
             hits == { i \in SexWindow(idx, Len(fields)) :
                         Strip(fields[i + 1]) \in {One, Two} }
         IN IF hits # {}
            THEN Strip(fields[(CHOOSE i \in hits : \A j \in hits : i <= j) + 1])
            ELSE FirstSexAnywhere(fields)

\* x or ""
OrEmpty(x) == IF x = Absent THEN <<>> ELSE x

\* parse_receipt_header(records): the header, or the exception that leaves it
ParseReceiptHeaderOutcome(recs) ==
    LET re_rec == FirstRE(recs) IN
    IF re_rec = None
    THEN [tag |-> "header",
          header |-> [raw_record |-> <<>>, patient_id |-> Absent, year_month |-> Absent,
                      receipt_type |-> Absent, name |-> Absent, name_kana |-> Absent,
                      sex |-> Absent, birthday |-> Absent, field_map |-> <<>>]]
    ELSE LET fields == [i \in 1..Len(re_rec.fields) |-> Strip(re_rec.fields[i])]
             receipt_type == IF Len(fields) > 1 THEN fields[2] ELSE Absent
             year_month == DetectYyyymm(fields)
             birthday == DetectBirthday(fields)
         IN IF year_month = ValueError THEN [tag |-> "ValueError"]
            ELSE IF birthday = ValueError THEN [tag |-> "ValueError"]
            ELSE LET patient_id == DetectPatientId(fields, year_month)
                     name == DetectName(fields)
                     name_kana == DetectNameKana(fields)
                     sex == DetectSex(fields)
                 IN [tag |-> "header",
                     header |->
                        [raw_record |-> re_rec.raw, patient_id |-> patient_id,
                         year_month |-> year_month, receipt_type |-> receipt_type,
                         name |-> name, name_kana |-> name_kana, sex |-> sex,
                         birthday |-> birthday,
                         field_map |->
                             [receipt_type_field |-> OrEmpty(receipt_type),
                              year_month_detected |-> OrEmpty(year_month),
                              patient_id_detected |-> OrEmpty(patient_id),
                              name_detected |-> OrEmpty(name),
                              name_kana_detected |-> OrEmpty(name_kana),
                              birthday_detected |-> OrEmpty(birthday),
                              sex_detected |-> OrEmpty(sex)]]]

MaxFields == 3      \* fields after the identifier, drawn from FieldPool
MaxSexFields == 6   \* fields after the identifier, drawn from SexFieldPool

NameField == <<Kanji, Kanji>>

FieldPool ==
    { <<"2", "0", "2", "4", "0", "1">>,
      <<"2", "0", "2", "4", "1", "3">>,
      <<"1", "9", "9", "9", "1", "2">>,
      <<CircledOne, CircledOne, CircledOne, CircledOne, CircledOne, CircledOne>>,
      <<"1", "9", "8", "0", "0", "1", "3", "1">>,
      <<" ", "1", "2">>,
      <<"1", "2", "3", "4", "5", "6", "7", "8", "9", "0", "1">>,
      One, Two, <<>>, NameField, <<Kana, Kana>> }

SexFieldPool == { NameField, One, Two, <<>> }

\* the field lists of the boundary record after its identifier
HeaderFieldLists(pool, n) == UNION { [1..k -> pool] : k \in 0..n }

\* the record parse_uke_text makes of the line "RE,<field>,..."
BoundaryRecord(fl) == UkeRecord(1, Join(<<RE>> \o fl, <<",">>))

\* the call
HeaderApply ==
    /\ hdArgs # None
    /\ hdOut = None
    /\ hdOut' = ParseReceiptHeaderOutcome(hdArgs.records)
    /\ UNCHANGED <<hdArgs, coreVars, splitVars, attachVars, hsearchVars, msearchVars>>

HeadInit ==
    /\ \/ hdArgs = [records |-> <<>>]
       \/ \E fl \in HeaderFieldLists(FieldPool, MaxFields) :
              hdArgs = [records |-> <<BoundaryRecord(fl)>>]
       \/ \E fl \in HeaderFieldLists(SexFieldPool, MaxSexFields) :
              hdArgs = [records |-> <<BoundaryRecord(fl)>>]
    /\ hdOut = None
    /\ CoreIdle
    /\ SplitIdle
    /\ AttachIdle
    /\ HSearchIdle
    /\ MSearchIdle

HeadNext == HeaderApply

SpecHeader == HeadInit /\ [][HeadNext]_vars


\* a field that consists of exactly 6 digits, a year in 2000..2099 and a
\* month in 1..12
IsYearMonth(s) ==
    /\ Len(s) = 6
    /\ IsDigitStr(s)
    /\ CanInt(s)
    /\ IntOf(SubSeq(s, 1, 4)) \in 2000..2099
    /\ IntOf(SubSeq(s, 5, 6)) \in 1..12

\* the stripped fields of the boundary record of hdArgs
HeaderFields ==
    LET f == hdArgs.records[1].fields IN [i \in 1..Len(f) |-> Strip(f[i])]

\* the first element of fields, in the order given, that satisfies Test
FirstWhere(fields, Test(_)) ==
    IF \E i \in 1..Len(fields) : Test(fields[i])
    THEN fields[CHOOSE i \in 1..Len(fields) :
                    Test(fields[i]) /\ \A j \in 1..(i - 1) : ~Test(fields[j])]
    ELSE Absent

\* C23: year_month is the first field, scanning forward, of exactly 6 digits
\* with a year in 2000..2099 and a month in 1..12, and absent when no field
\* qualifies: for every field list a header is returned with that value
C23_YearMonthFirstValid ==
    (hdOut # None /\ hdArgs.records # <<>>) =>
        /\ hdOut.tag = "header"
        /\ hdOut.header.year_month = FirstWhere(HeaderFields, IsYearMonth)

\* the selection of year_month where a header is returned
YearMonthWhenReturned ==
    (hdOut # None /\ hdArgs.records # <<>> /\ hdOut.tag = "header") =>
        hdOut.header.year_month = FirstWhere(HeaderFields, IsYearMonth)

\* C24: patient_id is the first field, scanning in reverse, that is all
\* digits, of length 2 to 10 and different from the detected year_month; it
\* never equals year_month and is absent when no field qualifies
C24_PatientIdLastValid ==
    (hdOut # None /\ hdArgs.records # <<>> /\ hdOut.tag = "header") =>
        LET ym == hdOut.header.year_month
            IsPatientId(s) == IsDigitStr(s) /\ Len(s) \in 2..10 /\ s # ym
        IN /\ hdOut.header.patient_id = FirstWhere(Reverse(HeaderFields), IsPatientId)
           /\ hdOut.header.patient_id # Absent => hdOut.header.patient_id # ym

\* year_month is detected, and the last all-digit field of length 2 to 10 is
\* the year_month value itself, so that patient_id is an earlier field
C24_Witness ==
    /\ hdOut # None /\ hdArgs.records # <<>> /\ hdOut.tag = "header"
    /\ hdOut.header.year_month # Absent
    /\ hdOut.header.patient_id # Absent
    /\ LET f == HeaderFields IN
       \E i \in 1..Len(f) : \E j \in 1..(i - 1) :
           /\ f[i] = hdOut.header.year_month
           /\ f[j] = hdOut.header.patient_id
           /\ \A k \in (i + 1)..Len(f) : ~(IsDigitStr(f[k]) /\ Len(f[k]) \in 2..10)

\* C25: sex is the first "1" or "2" among the 3 positions after the detected
\* name field, otherwise (or without a name) the first "1" or "2" anywhere,
\* otherwise absent
C25_SexNearName ==
    (hdOut # None /\ hdArgs.records # <<>> /\ hdOut.tag = "header") =>
        LET f == HeaderFields
            IsSex(s) == s \in {One, Two}
            IsName(s) == s = hdOut.header.name
            p == IF hdOut.header.name = Absent THEN 0
                 ELSE CHOOSE i \in 1..Len(f) : IsName(f[i]) /\ \A j \in 1..(i - 1) : ~IsName(f[j])
            near == IF p = 0 THEN <<>>
                    ELSE SubSeq(f, p + 1, IF p + 3 <= Len(f) THEN p + 3 ELSE Len(f))
        IN hdOut.header.sex =
               IF FirstWhere(near, IsSex) # Absent THEN FirstWhere(near, IsSex)
               ELSE FirstWhere(f, IsSex)

\* a "2" before the name, nothing in the 3 positions after it and a "1" in
\* the 4th: the fallback returns the "2"
C25_Witness ==
    /\ hdOut # None /\ hdArgs.records # <<>> /\ hdOut.tag = "header"
    /\ hdOut.header.sex = Two
    /\ LET f == HeaderFields IN
       \E p \in 1..Len(f) :
           /\ f[p] = hdOut.header.name
           /\ p + 4 <= Len(f)
           /\ f[p + 4] = One
           /\ \A i \in (p + 1)..(p + 3) : f[i] \notin {One, Two}
           /\ \E j \in 1..(p - 1) : f[j] = Two

\* C26: header extraction never fails: a header is returned for every field
\* list, and its raw_record is the boundary record's line
C26_NeverRaises ==
    hdOut # None =>
        /\ hdOut.tag = "header"
        /\ hdArgs.records # <<>> => hdOut.header.raw_record = hdArgs.records[1].raw

---------------------------------------------------------------------------
(* attach_diseases_to_receipt: parser/uke_parser.py *)

SY == <<"S", "Y">>

\* the mark "主" of a main disease
MainMark == "<main>"

\* get(i): f[i] if len(f) > i else "" (i is 0-based)
GetField(f, i) == IF Len(f) > i THEN f[i + 1] ELSE <<>>

\* width: int = 4
ModifierWidth == 4

\* DiseaseEntry(...) for one SY record
DiseaseEntry(rec, known) ==
    LET f == rec.fields
        main_flag_raw == Strip(GetField(f, 6))
    IN [code |-> Strip(GetField(f, 1)),
        start_date |-> Strip(GetField(f, 2)),
        outcome |-> Strip(GetField(f, 3)),
        is_main |-> (main_flag_raw = One \/ main_flag_raw = <<MainMark>>),
        modifier_codes |-> SplitModifierCodes(Strip(GetField(f, 4)), known, ModifierWidth)]

\* the loop over receipt.records: one entry per record of type "SY"
RECURSIVE DiseasesOf(_, _)
DiseasesOf(recs, known) ==
    IF recs = <<>> THEN <<>>
    ELSE IF Head(recs).record_type # SY THEN DiseasesOf(Tail(recs), known)
    ELSE <<DiseaseEntry(Head(recs), known)>> \o DiseasesOf(Tail(recs), known)

\* the new entries put behind the ones the receipt holds
AppendDiseases(receipt, diseases) == [receipt EXCEPT !.diseases = @ \o diseases]

\* receipt.diseases = diseases
SetDiseases(receipt, diseases) == [receipt EXCEPT !.diseases = diseases]

MaxAttach == 3    \* records of the receipt after its boundary record
MaxCalls == 2     \* calls of attach_diseases_to_receipt on the receipt

\* "SY,7,,,11112222,,1" , " SY, 8 ,,,x1111" , "SY" , "SI,7"
AttachLines ==
    { Join(<<SY, <<"7">>, <<>>, <<>>, <<"1", "1", "1", "1", "2", "2", "2", "2">>, <<>>, One>>,
           <<",">>),
      Join(<<<<" ", "S", "Y">>, <<" ", "8", " ">>, <<>>, <<>>, <<"x", "1", "1", "1", "1">>>>,
           <<",">>),
      SY,
      <<"S", "I", ",", "7">> }

\* the key sets of the modifier master given to the calls
AttachKnownSets ==
    { {}, {<<"1", "1", "1", "1">>}, {<<"1", "1", "1", "1">>, <<"2", "2", "2", "2">>} }

\* a receipt as group_records_into_receipts returns it
AttachReceipts ==
    UNION { { Finalize(UkeReceipt(1, 1,
                  <<UkeRecord(1, <<"R", "E", ",", "1">>)>>
                  \o [i \in 1..n |-> UkeRecord(i + 1, ls[i])])) :
              ls \in [1..n -> AttachLines] } : n \in 0..MaxAttach }

\* attach_diseases_to_receipt(receipt, modifier_codes_known)
AttachDiseasesToReceipt(known) ==
    /\ adReceipt # None
    /\ Len(adHist) < MaxCalls
    /\ adReceipt' = SetDiseases(adReceipt, DiseasesOf(adReceipt.records, known))
    /\ adHist' = Append(adHist, [known |-> known, diseases |-> adReceipt'.diseases])
    /\ UNCHANGED <<adBefore, coreVars, splitVars, headVars, hsearchVars, msearchVars>>

AttachInit ==
    /\ adReceipt \in AttachReceipts
    /\ adBefore = adReceipt
    /\ adHist = <<>>
    /\ CoreIdle
    /\ SplitIdle
    /\ HeadIdle
    /\ HSearchIdle
    /\ MSearchIdle

AttachNext == \E known \in AttachKnownSets : AttachDiseasesToReceipt(known)

SpecAttach == AttachInit /\ [][AttachNext]_vars

\* C27: after attach_diseases_to_receipt the diseases list has one entry per
\* "SY" record of the receipt, in record order, and nothing else; a call
\* replaces the list, so calls with the same known-set leave the same list;
\* no other part of the receipt changes
C27_OnePerSYReplaced ==
    adHist # <<>> =>
        LET IsSY(rec) == rec.record_type = SY
            sy == SelectSeq(adBefore.records, IsSY)
            d == adReceipt.diseases
        IN /\ Len(d) = Len(sy)
           /\ \A i \in 1..Len(d) : d[i].code = Strip(GetField(sy[i].fields, 1))
           /\ d = adHist[Len(adHist)].diseases
           /\ \A i, j \in 1..Len(adHist) :
                  adHist[i].known = adHist[j].known => adHist[i].diseases = adHist[j].diseases
           /\ adReceipt = [adBefore EXCEPT !.diseases = d]

\* two calls with the same known-set on a receipt with two SY records of
\* different codes and a record of another type
C27_Witness ==
    /\ Len(adHist) = 2
    /\ adHist[1].known = adHist[2].known
    /\ Len(adReceipt.diseases) = 2
    /\ adReceipt.diseases[1].code # adReceipt.diseases[2].code
    /\ Len(adReceipt.diseases[1].modifier_codes) = 1
    /\ Len(adReceipt.records) = 4

---------------------------------------------------------------------------
(* match_header and search_receipts_by_header: gui/header_search.py *)

\* a in b for two str
IsSubstring(a, b) == \E i \in 0..(Len(b) - Len(a)) : SubSeq(b, i + 1, i + Len(a)) = a

\* getattr(obj, name, default)
GetAttr(obj, name, default) == IF name \in DOMAIN obj THEN obj[name] ELSE default

\* _normalize_yyyymm(input_str)
NormalizeYyyymm(input_str) ==
    LET digits == SelectSeq(OrEmpty(input_str), IsDigit)
    IN IF Len(digits) >= 6 THEN SubSeq(digits, 1, 6) ELSE digits

\* HeaderSearchCondition.is_empty()
CondIsEmpty(cond) ==
    /\ Strip(cond.patient_id) = <<>> /\ Strip(cond.name) = <<>> /\ Strip(cond.kana) = <<>>
    /\ Strip(cond.year_month) = <<>> /\ Strip(cond.receipt_type) = <<>>

\* one condition of match_header: ignored when empty, else a substring test
\* on (getattr(header, attr, "") or "").strip()
CondHolds(header, attr, value) ==
    \/ Strip(value) = <<>>
    \/ IsSubstring(Strip(value), Strip(OrEmpty(GetAttr(header, attr, <<>>))))

\* match_header(receipt, cond)
MatchHeader(receipt, cond) ==
    IF receipt.header = None THEN FALSE
    ELSE /\ CondHolds(receipt.header, "patient_id", cond.patient_id)
         /\ CondHolds(receipt.header, "name", cond.name)
         /\ CondHolds(receipt.header, "kana", cond.kana)
         /\ \/ Strip(cond.year_month) = <<>>
            \/ /\ NormalizeYyyymm(cond.year_month) # <<>>
               /\ IsSubstring(NormalizeYyyymm(cond.year_month),
                      NormalizeYyyymm(Strip(OrEmpty(GetAttr(receipt.header, "year_month", <<>>)))))
         /\ CondHolds(receipt.header, "receipt_type", cond.receipt_type)

\* search_receipts_by_header(receipts, cond): 0-based positions
SearchReceiptsByHeader(rcpts, cond) ==
    IF CondIsEmpty(cond) THEN <<>>
    ELSE LET Hit(idx) == MatchHeader(rcpts[idx + 1], cond)
         IN SelectSeq([i \in 1..Len(rcpts) |-> i - 1], Hit)

MaxReceipts == 2   \* receipts given to search_receipts_by_header

\* a receipt of one boundary record with the header parse_receipt_header gives
HeaderReceipt(fl) ==
    LET recs == <<BoundaryRecord(fl)>>
    IN [UkeReceipt(1, 1, recs) EXCEPT !.header = ParseReceiptHeaderOutcome(recs).header]

\* "RE,1,202401,12,<kanji><kanji>,<kana><kana>" , "RE,2,<kana>x<kana>" and a
\* receipt whose header was never set
SearchReceiptPool ==
    { HeaderReceipt(<<One, <<"2", "0", "2", "4", "0", "1">>, <<"1", "2">>, NameField,
                      <<Kana, Kana>>>>),
      HeaderReceipt(<<Two, <<Kana, "x", Kana>>>>),
      UkeReceipt(1, 1, <<BoundaryRecord(<<One>>)>>) }

SearchConditions ==
    [patient_id : {<<>>, <<"1", "2">>},
     name : {<<>>, <<Kanji>>},
     kana : {<<>>, <<" ">>, <<Kana, Kana>>},
     year_month : {<<>>, <<"x">>, <<"2", "0", "2", "4", "/", "0", "1">>},
     receipt_type : {<<>>, One}]

\* the call
HeaderSearchApply ==
    /\ hsArgs # None
    /\ hsOut = None
    /\ hsOut' = [hits |-> SearchReceiptsByHeader(hsArgs.receipts, hsArgs.cond)]
    /\ UNCHANGED <<hsArgs, coreVars, splitVars, headVars, attachVars, msearchVars>>

HSearchInit ==
    /\ \E n \in 0..MaxReceipts : \E rs \in [1..n -> SearchReceiptPool], cond \in SearchConditions :
           hsArgs = [receipts |-> rs, cond |-> cond]
    /\ hsOut = None
    /\ CoreIdle
    /\ SplitIdle
    /\ HeadIdle
    /\ AttachIdle
    /\ MSearchIdle

HSearchNext == HeaderSearchApply

SpecHSearch == HSearchInit /\ [][HSearchNext]_vars

\* C28: match_header ignores empty conditions and compares the others by
\* substring, so a receipt whose header's kana name contains the non-empty
\* kana condition (all other conditions empty) is among the hits; the hits
\* are 0-based positions, and there is none when every condition is empty
C28_KanaSubstringMatches ==
    hsOut # None =>
        LET cond == hsArgs.cond
            rs == hsArgs.receipts
            kanaOnly == /\ Strip(cond.kana) # <<>>
                        /\ CondIsEmpty([cond EXCEPT !.kana = <<>>])
        IN /\ CondIsEmpty(cond) => hsOut.hits = <<>>
           /\ \A k \in 1..Len(hsOut.hits) : hsOut.hits[k] \in 0..(Len(rs) - 1)
           /\ kanaOnly =>
                 \A i \in 1..Len(rs) :
                     (/\ rs[i].header # None
                      /\ IsSubstring(Strip(cond.kana), OrEmpty(rs[i].header.name_kana)))
                     => \E k \in 1..Len(hsOut.hits) : hsOut.hits[k] = i - 1

---------------------------------------------------------------------------
(* The main window's file load and searches: gui/main_window.py *)

\* parse_uke_text(text) as one function
ParseUkeText(text) ==
    LET lines == SplitLines(text)
        Kept(idx) == ~IsBlank(RStripNewlines(lines[idx]))
        kept == SelectSeq([i \in 1..Len(lines) |-> i], Kept)
    IN [k \in 1..Len(kept) |-> UkeRecord(kept[k], RStripNewlines(lines[kept[k]]))]

\* the loop of group_records_into_receipts and the statements after it
RECURSIVE GroupLoop(_, _, _)
GroupLoop(recs, out, cur) ==
    IF recs = <<>> THEN (IF cur # None THEN CloseCurrent(out, cur) ELSE out)
    ELSE IF Head(recs).record_type = RE
         THEN LET closed == IF cur # None THEN CloseCurrent(out, cur) ELSE out
              IN GroupLoop(Tail(recs), closed,
                           UkeReceipt(NextIndex(closed), Head(recs).line_no, <<Head(recs)>>))
         ELSE IF cur = None THEN GroupLoop(Tail(recs), out, cur)
              ELSE GroupLoop(Tail(recs), out, AppendRecord(cur, Head(recs)))

\* group_records_into_receipts(records) as one function
GroupRecordsIntoReceipts(recs) == GroupLoop(recs, <<>>, None)

\* the 0-based positions of the elements whose text holds the keyword
HitsOf(texts, keyword) ==
    LET Hit(idx) == IsSubstring(keyword, texts[idx + 1])
    IN SelectSeq([i \in 1..Len(texts) |-> i - 1], Hit)

\* "\n".join(rec.raw for rec in receipt.records)
JoinedRaw(receipt) ==
    Join([i \in 1..Len(receipt.records) |-> receipt.records[i].raw], <<LF>>)

\* the index after one search-next over a non-empty hit list
NextHitIndex(index, hits) ==
    LET stepped == IF index < 0 THEN 0 ELSE index + 1
    IN IF stepped >= Len(hits) THEN 0 ELSE stepped

MaxFileLines == 2   \* lines of one file opened in the window

FileLines == { <<"R", "E", ",", "1">>, <<"x">> }

\* the decoded texts of the files: lines ended by "\n"
FileTexts ==
    UNION { { Join([i \in 1..n |-> ls[i] \o <<LF>>], <<>>) : ls \in [1..n -> FileLines] } :
            n \in 0..MaxFileLines }

\* what the input dialog returns: <<>> stands for Cancel or an empty text
Keywords == { <<>>, <<"E">>, <<"x">> }

\* _load_text_file(path), the file read and decoded as text: the two lists
\* are assigned, the hit lists and their indexes are not
LoadTextFile(text) ==
    /\ win_records' = ParseUkeText(text)
    /\ win_receipts' = GroupRecordsIntoReceipts(win_records')
    /\ win_last' = "load"
    /\ UNCHANGED <<search_hits, search_index, receipt_search_hits, receipt_search_index,
                   coreVars, splitVars, headVars, attachVars, hsearchVars>>

\* the body of _on_search with the dialog's answer
SearchBody(text) ==
    IF win_records = <<>> \/ text = <<>>
    THEN UNCHANGED <<search_hits, search_index>>
    ELSE LET hits == HitsOf([i \in 1..Len(win_records) |-> win_records[i].raw], text)
         IN /\ search_hits' = hits
            /\ search_index' = IF hits = <<>> THEN -1 ELSE 0

\* _on_search
OnSearch(text) ==
    /\ SearchBody(text)
    /\ win_last' = "search"
    /\ UNCHANGED <<win_records, win_receipts, receipt_search_hits, receipt_search_index,
                   coreVars, splitVars, headVars, attachVars, hsearchVars>>

\* _on_search_next
OnSearchNext(text) ==
    /\ IF win_records = <<>> THEN UNCHANGED <<search_hits, search_index>>
       ELSE IF search_hits = <<>> THEN SearchBody(text)
       ELSE /\ search_index' = NextHitIndex(search_index, search_hits)
            /\ UNCHANGED search_hits
    /\ win_last' = "search_next"
    /\ UNCHANGED <<win_records, win_receipts, receipt_search_hits, receipt_search_index,
                   coreVars, splitVars, headVars, attachVars, hsearchVars>>

\* the body of _on_receipt_search with the dialog's answer
ReceiptSearchBody(text) ==
    IF win_receipts = <<>> \/ text = <<>>
    THEN UNCHANGED <<receipt_search_hits, receipt_search_index>>
    ELSE LET hits == HitsOf([i \in 1..Len(win_receipts) |-> JoinedRaw(win_receipts[i])], text)
         IN /\ receipt_search_hits' = hits
            /\ receipt_search_index' = IF hits = <<>> THEN -1 ELSE 0

\* _on_receipt_search
OnReceiptSearch(text) ==
    /\ ReceiptSearchBody(text)
    /\ win_last' = "receipt_search"
    /\ UNCHANGED <<win_records, win_receipts, search_hits, search_index,
                   coreVars, splitVars, headVars, attachVars, hsearchVars>>

\* _on_receipt_search_next
OnReceiptSearchNext(text) ==
    /\ IF win_receipts = <<>> THEN UNCHANGED <<receipt_search_hits, receipt_search_index>>
       ELSE IF receipt_search_hits = <<>> THEN ReceiptSearchBody(text)
       ELSE /\ receipt_search_index' =
                   NextHitIndex(receipt_search_index, receipt_search_hits)
            /\ UNCHANGED receipt_search_hits
    /\ win_last' = "receipt_search_next"
    /\ UNCHANGED <<win_records, win_receipts, search_hits, search_index,
                   coreVars, splitVars, headVars, attachVars, hsearchVars>>

\* _on_header_search: the dialog has neither get_conditions nor conditions,
\* so a dict reaches search_receipts_by_header and cond.is_empty() raises
\* AttributeError before the hit list is assigned
OnHeaderSearch(accepted) ==
    /\ win_last' = IF win_receipts = <<>> THEN "header_search: no receipts"
                   ELSE IF ~accepted THEN "header_search: rejected"
                   ELSE "header_search: AttributeError"
    /\ UNCHANGED <<win_records, win_receipts, search_hits, search_index,
                   receipt_search_hits, receipt_search_index,
                   coreVars, splitVars, headVars, attachVars, hsearchVars>>

MSearchInit ==
    /\ win_records = <<>>
    /\ win_receipts = <<>>
    /\ search_hits = <<>>
    /\ search_index = -1
    /\ receipt_search_hits = <<>>
    /\ receipt_search_index = -1
    /\ win_last = "init"
    /\ CoreIdle
    /\ SplitIdle
    /\ HeadIdle
    /\ AttachIdle
    /\ HSearchIdle

MSearchNext ==
    \/ \E text \in FileTexts : LoadTextFile(text)
    \/ \E text \in Keywords : OnSearch(text)
    \/ \E text \in Keywords : OnSearchNext(text)
    \/ \E text \in Keywords : OnReceiptSearch(text)
    \/ \E text \in Keywords : OnReceiptSearchNext(text)
    \/ \E accepted \in BOOLEAN : OnHeaderSearch(accepted)

SpecWinSearch == MSearchInit /\ [][MSearchNext]_vars

\* C29: after any sequence of loads, searches and search-next operations
\* every index in _search_hits is a valid index into _records and every index
\* in _receipt_search_hits into _receipts, and a non-empty hit list has its
\* index within 0..len(hits)-1
C29_HitsValid ==
    /\ \A k \in 1..Len(search_hits) : search_hits[k] \in 0..(Len(win_records) - 1)
    /\ \A k \in 1..Len(receipt_search_hits) :
           receipt_search_hits[k] \in 0..(Len(win_receipts) - 1)
    /\ search_hits # <<>> => search_index \in 0..(Len(search_hits) - 1)
    /\ receipt_search_hits # <<>> =>
           receipt_search_index \in 0..(Len(receipt_search_hits) - 1)

---------------------------------------------------------------------------
(* The disk cache file of a load and the files it was computed from *)

\* the files of a path list
FilesIn(paths) == { paths[i] : i \in 1..Len(paths) }

\* C30: a disk cache entry is only returned to a load over the files it was
\* computed from: when a load is served from the disk cache, no path list of
\* the same category over other files resolves to the cache file it read
C30_DiskEntryOwnFiles ==
    [][ (LoadStep /\ last'.outcome = "disk") =>
          \A other \in CachePathLists :
              (/\ FilesIn(other) # FilesIn(last'.paths)
               /\ BuildSignature(other, fs).raised = "no")
              => DiskCachePath(last'.kind, BuildSignature(other, fs).sig)
                   # DiskCachePath(last'.kind, BuildSignature(last'.paths, fs).sig)
      ]_vars

=============================================================================
